---------------------------- MODULE Spec2Model ----------------------------
(***************************************************************************)
(* Model of the NT3H2111 NFC driver.                                       *)
(*                                                                         *)
(* Two drafts of the driver are modelled side by side:                     *)
(*   - the stateless draft (nt3h_* functions, nt3h_dev_t handle with       *)
(*     read / write / delay_ms references), and                            *)
(*   - the state-machine draft (NFC_* functions, NFC_HandleTypeDef with a  *)
(*     State field, STM32 HAL as the transport).                           *)
(*                                                                         *)
(* The device is a block memory: 16-byte blocks behind a block address.    *)
(* Every public operation is one action; the transport calls the operation *)
(* issues are recorded, in order, in the variable calls.                   *)
(***************************************************************************)
EXTENDS Integers, Sequences, FiniteSets, TLC

(***************************************************************************)
(* Program constants                                                       *)
(***************************************************************************)
NT3H_I2C_MEM_BLOCK_SIZE == 16
NT3H_SRAM_ADDRESS == 248
NT3H_SRAM_LENGTH == 64
NT3H_MEMORY_ERASE_VALUE == 0
NT3H_MEM_BLOCK_CONFIG_1K == 58
NT3H_MEM_BLOCK_SESSION_REGS_1K == 254
NFC_I2C_MEM_BLOCK_SIZE == 16
NFC_SRAM_ADDRESS == 248
NFC_SRAM_LENGTH == 64
NFC_MEMORY_ERASE_VALUE == 0

\* Widths of the C integer types the code computes in.
U8 == 256
U16 == 65536

(***************************************************************************)
(* Bounds of the model                                                     *)
(***************************************************************************)
\* Number of operations in one behaviour.
MaxOps == 2

(***************************************************************************)
(* Bytes                                                                   *)
(***************************************************************************)
RECURSIVE BitAnd(_, _, _)
\* a & b on the low n bits.
BitAnd(a, b, n) ==
    IF n = 0 THEN 0
    ELSE (IF a % 2 = 1 /\ b % 2 = 1 THEN 1 ELSE 0)
         + 2 * BitAnd(a \div 2, b \div 2, n - 1)

RECURSIVE BitOr(_, _, _)
\* a | b on the low n bits.
BitOr(a, b, n) ==
    IF n = 0 THEN 0
    ELSE (IF a % 2 = 1 \/ b % 2 = 1 THEN 1 ELSE 0)
         + 2 * BitOr(a \div 2, b \div 2, n - 1)

\* A run of n bytes of value v (memset's fill).
Fill(v, n) == [i \in 1..n |-> v]

\* Splice with the copy landing one byte late (memcpy(buf + off + 1, ...)).
SpliceOneLate(buf, off, src) ==
    [i \in 1..Len(buf) |->
        IF i > off + 1 /\ i <= off + 1 + Len(src) THEN src[i - off - 1]
        ELSE buf[i]]

\* memcpy(buf + off, src, Len(src)): buf with src spliced in at C index off.
Splice(buf, off, src) ==
    [i \in 1..Len(buf) |->
        IF i > off /\ i <= off + Len(src) THEN src[i - off] ELSE buf[i]]

(***************************************************************************)
(* Device memory: every block address holds one 16-byte block.  The memory *)
(* is kept as the set of blocks that differ from the device's initial      *)
(* content, so equal memories are equal values.                            *)
(***************************************************************************)
DefaultBlock(a) ==
    [i \in 1..NT3H_I2C_MEM_BLOCK_SIZE |->
        ((a * NT3H_I2C_MEM_BLOCK_SIZE + (i - 1)) % 251) + 1]

MemRead(m, a) == IF a \in DOMAIN m THEN m[a] ELSE DefaultBlock(a)

MemWrite(m, a, b) ==
    IF b = DefaultBlock(a)
    THEN [x \in DOMAIN m \ {a} |-> m[x]]
    ELSE [x \in DOMAIN m \cup {a} |-> IF x = a THEN b ELSE m[x]]

\* The block address that reaches the device: the transport sends one address
\* byte (uint8_t addr; I2C_MEMADD_SIZE_8BIT).
DevAddr(a) == a % U8

(***************************************************************************)
(* Transport.  An operation runs against an environment e:                 *)
(*   mem     the device memory,                                            *)
(*   calls   the transport calls issued so far, in order,                  *)
(*   io      how many of them can fail (reads, writes, transmits,          *)
(*           receives, the ready probe; the delay returns nothing),        *)
(*   failAt  the fallible call that fails (0: none), ferr what it returns, *)
(*   rxb     the byte the device answers a 1-byte receive with.            *)
(* A call in the log keeps its kind, its address, its packet, whether it   *)
(* succeeded and, when it did not, the status it returned.                 *)
(***************************************************************************)
Call(kind, a, pkt, ok) ==
    [k |-> kind, a |-> a, pkt |-> pkt, ok |-> ok, ret |-> "none"]

Env(m, failAt, ferr, rxb) ==
    [mem |-> m, calls |-> << >>, io |-> 0, failAt |-> failAt, ferr |-> ferr,
     rxb |-> rxb]

Fails(e) == e.io + 1 = e.failAt

Issue(e, kind, a, pkt) ==
    [e EXCEPT !.calls = Append(@, [Call(kind, a, pkt, ~Fails(e)) EXCEPT
                                      !.ret = IF Fails(e) THEN e.ferr
                                              ELSE "none"]),
              !.io = @ + 1]

\* Content of a receive buffer the transport never filled.
Unfilled == Fill(0, NT3H_I2C_MEM_BLOCK_SIZE)

\* What an operation returns: the environment after it, its status and the
\* caller's output buffer after it.
Ret(e, rslt, out) == [e |-> e, rslt |-> rslt, out |-> out]

(***************************************************************************)
(* Stateless draft: device handle                                          *)
(***************************************************************************)
\* A handle pointer (valid: non-null) and its three function references
\* (TRUE: non-null).
Dev(valid, rd, wr, dl) ==
    [valid |-> valid, read |-> rd, write |-> wr, delay_ms |-> dl]

null_ptr_check(dev) ==
    IF ~dev.valid \/ ~dev.read \/ ~dev.write
    THEN "NT3H_E_NULL_PTR"
    ELSE "NT3H_OK"

(***************************************************************************)
(* Stateless draft: transport primitives                                   *)
(***************************************************************************)
\* read_mem(dev_id, addr, block->data, 16): one block in.
read_mem(e, addr) ==
    [e |-> Issue(e, "read", addr, << >>),
     rslt |-> IF Fails(e) THEN e.ferr ELSE "NT3H_OK",
     data |-> IF Fails(e) THEN Unfilled ELSE MemRead(e.mem, DevAddr(addr))]

\* dev->write(dev_id, addr, block->data, 16): one block out.  A failed write
\* leaves the block as it was.
write_mem(e, addr, data) ==
    [e |-> [Issue(e, "write", addr, data) EXCEPT
                !.mem = IF Fails(e) THEN @
                        ELSE MemWrite(@, DevAddr(addr), data)],
     rslt |-> IF Fails(e) THEN e.ferr ELSE "NT3H_OK"]

\* delay_ms(period): returns nothing, cannot fail.
delay_ms(e, period) ==
    [e EXCEPT !.calls = Append(@, Call("delay", period, << >>, TRUE))]

\* dev->write(dev_id, buf, len): a raw packet out.
dev_write(e, pkt) ==
    [e |-> Issue(e, "tx", 0, pkt),
     rslt |-> IF Fails(e) THEN e.ferr ELSE "NT3H_OK"]

\* dev->read(dev_id, buf, 1): one raw byte in.
dev_read(e) ==
    [e |-> Issue(e, "rx", 0, << >>),
     rslt |-> IF Fails(e) THEN e.ferr ELSE "NT3H_OK",
     data |-> IF Fails(e) THEN 0 ELSE e.rxb]

(***************************************************************************)
(* Stateless draft: block transfer engine                                  *)
(***************************************************************************)
RECURSIVE read_blocks_loop_retry(_, _, _, _)
\* read_blocks_loop reading a block a second time when its read failed.
read_blocks_loop_retry(e, addr, cnt, buf) ==
    IF cnt = 0 THEN Ret(e, "NT3H_OK", buf)
    ELSE LET r1 == read_mem(e, addr)
             r == IF r1.rslt # "NT3H_OK" THEN read_mem(r1.e, addr) ELSE r1
         IN  IF r.rslt # "NT3H_OK" THEN Ret(r.e, r.rslt, buf \o r.data)
             ELSE read_blocks_loop_retry(r.e, (addr + 1) % U16, cnt - 1,
                                         buf \o r.data)

RECURSIVE read_blocks_loop(_, _, _, _)
read_blocks_loop(e, addr, cnt, buf) ==
    IF cnt = 0 THEN Ret(e, "NT3H_OK", buf)
    ELSE LET r == read_mem(e, addr)
         IN  IF r.rslt # "NT3H_OK" THEN Ret(r.e, r.rslt, buf \o r.data)
             ELSE read_blocks_loop(r.e, (addr + 1) % U16, cnt - 1,
                                   buf \o r.data)

\* block: whether the block pointer is non-null.  out is the block array.
read_blocks(e, dev, addr, block, cnt) ==
    IF null_ptr_check(dev) # "NT3H_OK" THEN Ret(e, null_ptr_check(dev), << >>)
    ELSE IF ~block \/ cnt = 0 THEN Ret(e, "NT3H_E_INVALID_ARGS", << >>)
    ELSE read_blocks_loop(e, addr, cnt, << >>)

\* The test write_blocks makes after a successful block write: TRUE when no
\* settle delay is needed.
InSram(addr) ==
    (addr > NT3H_SRAM_ADDRESS) /\ (addr < (NT3H_SRAM_ADDRESS + NT3H_SRAM_LENGTH))

\* The write loop without block++: every transfer sends the first block.
RECURSIVE write_blocks_loop_first_block(_, _, _, _)
write_blocks_loop_first_block(e, addr, cnt, buf) ==
    IF cnt = 0 THEN Ret(e, "NT3H_OK", << >>)
    ELSE LET r == write_mem(e, addr, SubSeq(buf, 1, NT3H_I2C_MEM_BLOCK_SIZE))
             e2 == IF InSram(addr) THEN r.e ELSE delay_ms(r.e, 4)
         IN  IF r.rslt # "NT3H_OK" THEN Ret(r.e, r.rslt, << >>)
             ELSE write_blocks_loop_first_block(e2, (addr + 1) % U16, cnt - 1,
                                                buf)

\* The write loop returning after the last block without the settle delay.
RECURSIVE write_blocks_loop_no_last_delay(_, _, _, _)
write_blocks_loop_no_last_delay(e, addr, cnt, buf) ==
    IF cnt = 0 THEN Ret(e, "NT3H_OK", << >>)
    ELSE LET r == write_mem(e, addr, SubSeq(buf, 1, NT3H_I2C_MEM_BLOCK_SIZE))
             e2 == IF InSram(addr) \/ cnt = 1 THEN r.e ELSE delay_ms(r.e, 4)
         IN  IF r.rslt # "NT3H_OK" THEN Ret(r.e, r.rslt, << >>)
             ELSE write_blocks_loop_no_last_delay(e2, (addr + 1) % U16,
                      cnt - 1,
                      SubSeq(buf, NT3H_I2C_MEM_BLOCK_SIZE + 1, Len(buf)))

\* The write loop issuing a failed block write a second time before it
\* gives up.
RECURSIVE write_blocks_loop_rewrite(_, _, _, _)
write_blocks_loop_rewrite(e, addr, cnt, buf) ==
    IF cnt = 0 THEN Ret(e, "NT3H_OK", << >>)
    ELSE LET r == write_mem(e, addr, SubSeq(buf, 1, NT3H_I2C_MEM_BLOCK_SIZE))
             again == write_mem(r.e, addr,
                                SubSeq(buf, 1, NT3H_I2C_MEM_BLOCK_SIZE))
             e2 == IF InSram(addr) THEN r.e ELSE delay_ms(r.e, 4)
         IN  IF r.rslt # "NT3H_OK" THEN Ret(again.e, r.rslt, << >>)
             ELSE write_blocks_loop_rewrite(e2, (addr + 1) % U16, cnt - 1,
                      SubSeq(buf, NT3H_I2C_MEM_BLOCK_SIZE + 1, Len(buf)))

RECURSIVE write_blocks_loop(_, _, _, _)
write_blocks_loop(e, addr, cnt, buf) ==
    IF cnt = 0 THEN Ret(e, "NT3H_OK", << >>)
    ELSE LET r == write_mem(e, addr, SubSeq(buf, 1, NT3H_I2C_MEM_BLOCK_SIZE))
             e2 == IF InSram(addr) THEN r.e ELSE delay_ms(r.e, 4)
         IN  IF r.rslt # "NT3H_OK" THEN Ret(r.e, r.rslt, << >>)
             ELSE write_blocks_loop(e2, (addr + 1) % U16, cnt - 1,
                      SubSeq(buf, NT3H_I2C_MEM_BLOCK_SIZE + 1, Len(buf)))

\* block: whether the block pointer is non-null; buf: the block array.
write_blocks(e, dev, addr, block, buf, cnt) ==
    IF null_ptr_check(dev) # "NT3H_OK" THEN Ret(e, null_ptr_check(dev), << >>)
    ELSE IF ~block \/ cnt = 0 THEN Ret(e, "NT3H_E_INVALID_ARGS", << >>)
    ELSE write_blocks_loop(e, addr, cnt, buf)

\* The number of blocks a transfer of len bytes at in-block offset covers,
\* as the code computes it (in uint16_t).
calculate_blocks_needed(offset, len) ==
    LET whole == (len \div NT3H_I2C_MEM_BLOCK_SIZE) % U16
        partial_bytes == len % NT3H_I2C_MEM_BLOCK_SIZE
        withPartial == (whole + (IF partial_bytes # 0 THEN 1 ELSE 0)) % U16
    IN  (withPartial
         + (IF (offset + len) > NT3H_I2C_MEM_BLOCK_SIZE THEN 1 ELSE 0)) % U16

\* The address left as it is: the whole blocks of the offset are dropped.
NormAddrNoCarry(addr, offset) == addr

\* addr += offset / 16 (uint16_t).
NormAddr(addr, offset) == (addr + (offset \div NT3H_I2C_MEM_BLOCK_SIZE)) % U16

\* offset -= (offset / 16) * 16.
NormOffset(offset) ==
    offset - (offset \div NT3H_I2C_MEM_BLOCK_SIZE) * NT3H_I2C_MEM_BLOCK_SIZE


(***************************************************************************)
(* Caller-side values                                                      *)
(***************************************************************************)
\* What the caller's output buffer holds before a call.
CallerBuf(len) == Fill(238, len)

\* What the build makes of an access through a null pointer or past the end
\* of a buffer: a fault (the call never returns), or the access goes through
\* (a load yields the bytes found there, a store does not reach the device)
\* and the call carries on.
\* state: what a load of the handle's State field through a null handle
\* yields.
UB(fault, bytes, state) == [fault |-> fault, bytes |-> bytes, state |-> state]

\* n bytes loaded through a null pointer.
NullLoad(ub, n) == [i \in 1..n |-> ub.bytes[((i - 1) % Len(ub.bytes)) + 1]]

\* memcpy / memset of len bytes at C index off runs past the end of buf.
Overruns(buf, off, len) == off + len > Len(buf)

\* memcpy(data, buf + off, len): the bytes past the end of buf are what the
\* build finds there.
BufLoad(buf, off, len, ub) ==
    [i \in 1..len |->
        IF off + i <= Len(buf) THEN buf[off + i]
        ELSE ub.bytes[((i - 1) % Len(ub.bytes)) + 1]]

\* buf[idx] = v: a store at an index past the end of buf does not reach buf.
StoreAt(buf, idx, v) ==
    IF idx < Len(buf) THEN [buf EXCEPT ![idx + 1] = v] ELSE buf

\* The build's choice where the code makes no null access.
NoUB == UB(FALSE, <<0>>, "NFC_STATE_RESET")

(***************************************************************************)
(* Stateless draft: byte-span translator                                   *)
(***************************************************************************)
\* data: whether the caller's buffer pointer is non-null.
nt3h_read_bytes(e, dev, addr, offset, data, len, ub) ==
    IF ~data \/ len = 0 THEN Ret(e, "NT3H_E_INVALID_ARGS", CallerBuf(len))
    ELSE LET a == NormAddr(addr, offset)
             off == NormOffset(offset)
             blocks_needed == calculate_blocks_needed(off, len) % U8
             r == read_blocks(e, dev, a, TRUE, blocks_needed)
         IN  IF r.rslt # "NT3H_OK" THEN Ret(r.e, r.rslt, CallerBuf(len))
             ELSE IF Overruns(r.out, off, len) /\ ub.fault
             THEN Ret(r.e, "FAULT", << >>)
             ELSE Ret(r.e, r.rslt, BufLoad(r.out, off, len, ub))

\* nt3h_write_bytes writing the blocks it read back after a failed write.
nt3h_write_bytes_rollback(e, dev, addr, offset, data, bytes, len, ub) ==
    IF null_ptr_check(dev) # "NT3H_OK" THEN Ret(e, null_ptr_check(dev), << >>)
    ELSE IF ~data \/ len = 0 THEN Ret(e, "NT3H_E_INVALID_ARGS", << >>)
    ELSE LET a == NormAddr(addr, offset)
             off == NormOffset(offset)
             blocks_needed == calculate_blocks_needed(off, len) % U8
             r == read_blocks(e, dev, a, TRUE, blocks_needed)
             w == write_blocks(r.e, dev, a, TRUE,
                               Splice(r.out, off, SubSeq(bytes, 1, len)),
                               blocks_needed)
             b == write_blocks(w.e, dev, a, TRUE, r.out, blocks_needed)
         IN  IF r.rslt # "NT3H_OK" THEN Ret(r.e, r.rslt, << >>)
             ELSE IF w.rslt # "NT3H_OK" THEN Ret(b.e, w.rslt, << >>)
             ELSE w

\* nt3h_write_bytes splicing into a cleared scratch buffer in place of the
\* blocks read.
nt3h_write_bytes_unread(e, dev, addr, offset, data, bytes, len, ub) ==
    IF null_ptr_check(dev) # "NT3H_OK" THEN Ret(e, null_ptr_check(dev), << >>)
    ELSE IF ~data \/ len = 0 THEN Ret(e, "NT3H_E_INVALID_ARGS", << >>)
    ELSE LET a == NormAddr(addr, offset)
             off == NormOffset(offset)
             blocks_needed == calculate_blocks_needed(off, len) % U8
             r == read_blocks(e, dev, a, TRUE, blocks_needed)
         IN  IF r.rslt # "NT3H_OK" THEN Ret(r.e, r.rslt, << >>)
             ELSE write_blocks(r.e, dev, a, TRUE,
                               Splice(Fill(0, Len(r.out)), off,
                                      SubSeq(bytes, 1, len)),
                               blocks_needed)

\* bytes: the caller's buffer (read when data is non-null).
nt3h_write_bytes(e, dev, addr, offset, data, bytes, len, ub) ==
    IF null_ptr_check(dev) # "NT3H_OK" THEN Ret(e, null_ptr_check(dev), << >>)
    ELSE IF ~data \/ len = 0 THEN Ret(e, "NT3H_E_INVALID_ARGS", << >>)
    ELSE LET a == NormAddr(addr, offset)
             off == NormOffset(offset)
             blocks_needed == calculate_blocks_needed(off, len) % U8
             r == read_blocks(e, dev, a, TRUE, blocks_needed)
         IN  IF r.rslt # "NT3H_OK" THEN Ret(r.e, r.rslt, << >>)
             ELSE IF Overruns(r.out, off, len) /\ ub.fault
             THEN Ret(r.e, "FAULT", << >>)
             ELSE write_blocks(r.e, dev, a, TRUE,
                               Splice(r.out, off, SubSeq(bytes, 1, len)),
                               blocks_needed)

\* nt3h_erase_bytes writing erased blocks without reading them first.
nt3h_erase_bytes_blind(e, dev, addr, offset, len, ub) ==
    IF null_ptr_check(dev) # "NT3H_OK" THEN Ret(e, null_ptr_check(dev), << >>)
    ELSE IF len = 0 THEN Ret(e, "NT3H_E_INVALID_ARGS", << >>)
    ELSE LET a == NormAddr(addr, offset)
             off == NormOffset(offset)
             blocks_needed == calculate_blocks_needed(off, len) % U8
         IN  write_blocks(e, dev, a, TRUE,
                          Fill(NT3H_MEMORY_ERASE_VALUE,
                               blocks_needed * NT3H_I2C_MEM_BLOCK_SIZE),
                          blocks_needed)

\* nt3h_erase_bytes filling with 0xFF, the erased state of flash.
nt3h_erase_bytes_ones(e, dev, addr, offset, len, ub) ==
    IF null_ptr_check(dev) # "NT3H_OK" THEN Ret(e, null_ptr_check(dev), << >>)
    ELSE IF len = 0 THEN Ret(e, "NT3H_E_INVALID_ARGS", << >>)
    ELSE LET a == NormAddr(addr, offset)
             off == NormOffset(offset)
             blocks_needed == calculate_blocks_needed(off, len) % U8
             r == read_blocks(e, dev, a, TRUE, blocks_needed)
         IN  IF r.rslt # "NT3H_OK" THEN Ret(r.e, r.rslt, << >>)
             ELSE IF Overruns(r.out, off, len) /\ ub.fault
             THEN Ret(r.e, "FAULT", << >>)
             ELSE write_blocks(r.e, dev, a, TRUE,
                               Splice(r.out, off, Fill(255, len)),
                               blocks_needed)

nt3h_erase_bytes(e, dev, addr, offset, len, ub) ==
    IF null_ptr_check(dev) # "NT3H_OK" THEN Ret(e, null_ptr_check(dev), << >>)
    ELSE IF len = 0 THEN Ret(e, "NT3H_E_INVALID_ARGS", << >>)
    ELSE LET a == NormAddr(addr, offset)
             off == NormOffset(offset)
             blocks_needed == calculate_blocks_needed(off, len) % U8
             r == read_blocks(e, dev, a, TRUE, blocks_needed)
         IN  IF r.rslt # "NT3H_OK" THEN Ret(r.e, r.rslt, << >>)
             ELSE IF Overruns(r.out, off, len) /\ ub.fault
             THEN Ret(r.e, "FAULT", << >>)
             ELSE write_blocks(r.e, dev, a, TRUE,
                               Splice(r.out, off,
                                      Fill(NT3H_MEMORY_ERASE_VALUE, len)),
                               blocks_needed)

(***************************************************************************)
(* Stateless draft: register accessor                                      *)
(***************************************************************************)
nt3h_read_register(e, dev, reg, data) ==
    IF null_ptr_check(dev) # "NT3H_OK"
    THEN Ret(e, null_ptr_check(dev), CallerBuf(1))
    ELSE IF ~data THEN Ret(e, "NT3H_E_INVALID_ARGS", CallerBuf(1))
    ELSE LET w == dev_write(e, <<NT3H_MEM_BLOCK_SESSION_REGS_1K, reg>>)
             r == dev_read(w.e)
         IN  IF w.rslt # "NT3H_OK" THEN Ret(w.e, w.rslt, CallerBuf(1))
             ELSE IF r.rslt # "NT3H_OK" THEN Ret(r.e, r.rslt, CallerBuf(1))
             ELSE Ret(r.e, r.rslt, <<r.data>>)

\* nt3h_write_register with mask and value in each other's place in the
\* packet.
nt3h_write_register_swapped(e, dev, reg, mask, data) ==
    IF null_ptr_check(dev) # "NT3H_OK" THEN Ret(e, null_ptr_check(dev), << >>)
    ELSE LET w == dev_write(e, <<NT3H_MEM_BLOCK_SESSION_REGS_1K, reg, data, mask>>)
         IN  Ret(w.e, w.rslt, << >>)

nt3h_write_register(e, dev, reg, mask, data) ==
    IF null_ptr_check(dev) # "NT3H_OK" THEN Ret(e, null_ptr_check(dev), << >>)
    ELSE LET w == dev_write(e, <<NT3H_MEM_BLOCK_SESSION_REGS_1K, reg, mask, data>>)
         IN  Ret(w.e, w.rslt, << >>)

\* data: whether the output pointer is non-null; the code stores through it
\* unchecked.
nt3h_read_config(e, dev, reg, data, ub) ==
    IF null_ptr_check(dev) # "NT3H_OK"
    THEN Ret(e, null_ptr_check(dev), CallerBuf(1))
    ELSE LET r == read_blocks(e, dev, NT3H_MEM_BLOCK_CONFIG_1K, TRUE, 1)
         IN  IF r.rslt # "NT3H_OK" THEN Ret(r.e, r.rslt, CallerBuf(1))
             ELSE IF Overruns(r.out, reg, 1) /\ ub.fault
             THEN Ret(r.e, "FAULT", << >>)
             ELSE IF data THEN Ret(r.e, r.rslt, BufLoad(r.out, reg, 1, ub))
             ELSE IF ub.fault THEN Ret(r.e, "FAULT", << >>)
             ELSE Ret(r.e, r.rslt, << >>)

\* ConfigMerge with the sense of the mask inverted
\* ((block.data[reg] & ~mask) | data).
ConfigMergeInverted(old, mask, data) ==
    BitOr(BitAnd(old, 255 - mask, 8), data, 8)

\* block.data[reg] = (block.data[reg] & mask) | data
ConfigMerge(old, mask, data) == BitOr(BitAnd(old, mask, 8), data, 8)

\* nt3h_write_config writing the block back whatever the read returned.
nt3h_write_config_unchecked(e, dev, reg, mask, data, ub) ==
    IF null_ptr_check(dev) # "NT3H_OK" THEN Ret(e, null_ptr_check(dev), << >>)
    ELSE LET r == read_blocks(e, dev, NT3H_MEM_BLOCK_CONFIG_1K, TRUE, 1)
             old == BufLoad(r.out, reg, 1, ub)[1]
         IN  IF Overruns(r.out, reg, 1) /\ ub.fault
             THEN Ret(r.e, "FAULT", << >>)
             ELSE write_blocks(r.e, dev, NT3H_MEM_BLOCK_CONFIG_1K, TRUE,
                      StoreAt(r.out, reg, ConfigMerge(old, mask, data)), 1)

\* block.data[reg] is indexed unchecked: for reg past the block the load
\* and the store fall outside it.
nt3h_write_config(e, dev, reg, mask, data, ub) ==
    IF null_ptr_check(dev) # "NT3H_OK" THEN Ret(e, null_ptr_check(dev), << >>)
    ELSE LET r == read_blocks(e, dev, NT3H_MEM_BLOCK_CONFIG_1K, TRUE, 1)
             old == BufLoad(r.out, reg, 1, ub)[1]
         IN  IF r.rslt # "NT3H_OK" THEN Ret(r.e, r.rslt, << >>)
             ELSE IF Overruns(r.out, reg, 1) /\ ub.fault
             THEN Ret(r.e, "FAULT", << >>)
             ELSE write_blocks(r.e, dev, NT3H_MEM_BLOCK_CONFIG_1K, TRUE,
                      StoreAt(r.out, reg, ConfigMerge(old, mask, data)), 1)

\* nt3h_change_i2c_address writing a zeroed block with the new address in
\* byte 0 instead of the block it read.
nt3h_change_i2c_address_zeroed(e, dev, i2c_addr) ==
    IF null_ptr_check(dev) # "NT3H_OK" THEN Ret(e, null_ptr_check(dev), << >>)
    ELSE LET r == read_blocks(e, dev, 0, TRUE, 1)
         IN  IF r.rslt # "NT3H_OK" THEN Ret(r.e, r.rslt, << >>)
             ELSE write_blocks(r.e, dev, 0, TRUE,
                               [Fill(0, NT3H_I2C_MEM_BLOCK_SIZE)
                                    EXCEPT ![1] = i2c_addr], 1)

nt3h_change_i2c_address(e, dev, i2c_addr) ==
    IF null_ptr_check(dev) # "NT3H_OK" THEN Ret(e, null_ptr_check(dev), << >>)
    ELSE LET r == read_blocks(e, dev, 0, TRUE, 1)
         IN  IF r.rslt # "NT3H_OK" THEN Ret(r.e, r.rslt, << >>)
             ELSE write_blocks(r.e, dev, 0, TRUE,
                               [r.out EXCEPT ![1] = i2c_addr], 1)

\* nt3h_is_field_present without the mask: any bit set counts as a field.
nt3h_is_field_present_any_bit(e, dev, is_present) ==
    IF null_ptr_check(dev) # "NT3H_OK"
    THEN Ret(e, null_ptr_check(dev), CallerBuf(1))
    ELSE IF ~is_present THEN Ret(e, "NT3H_E_NULL_PTR", CallerBuf(1))
    ELSE LET r == nt3h_read_register(e, dev, 6, TRUE)
         IN  IF r.rslt # "NT3H_OK" THEN Ret(r.e, r.rslt, CallerBuf(1))
             ELSE Ret(r.e, r.rslt, <<IF r.out[1] # 0 THEN 1 ELSE 0>>)

\* is_present: whether the output pointer is non-null.
nt3h_is_field_present(e, dev, is_present) ==
    IF null_ptr_check(dev) # "NT3H_OK"
    THEN Ret(e, null_ptr_check(dev), CallerBuf(1))
    ELSE IF ~is_present THEN Ret(e, "NT3H_E_NULL_PTR", CallerBuf(1))
    ELSE LET r == nt3h_read_register(e, dev, 6, TRUE)
         IN  IF r.rslt # "NT3H_OK" THEN Ret(r.e, r.rslt, CallerBuf(1))
             ELSE Ret(r.e, r.rslt, <<BitAnd(r.out[1], 1, 8)>>)

(***************************************************************************)
(* Stateless draft: capability container and device-level operations       *)
(***************************************************************************)
\* nt3h_read_capability_cont copying bytes 12..15 of its local block to the
\* caller's container before it tests the status of the read.
nt3h_read_capability_cont_early_copy(e, dev, cc, ub) ==
    IF null_ptr_check(dev) # "NT3H_OK"
    THEN Ret(e, null_ptr_check(dev), CallerBuf(4))
    ELSE LET r == read_blocks(e, dev, 0, TRUE, 1)
         IN  Ret(r.e, r.rslt, SubSeq(r.out, 13, 16))

\* cc: whether the container pointer is non-null; the code copies through it
\* unchecked.
nt3h_read_capability_cont(e, dev, cc, ub) ==
    IF null_ptr_check(dev) # "NT3H_OK"
    THEN Ret(e, null_ptr_check(dev), CallerBuf(4))
    ELSE LET r == read_blocks(e, dev, 0, TRUE, 1)
         IN  IF r.rslt # "NT3H_OK" THEN Ret(r.e, r.rslt, CallerBuf(4))
             ELSE IF cc THEN Ret(r.e, r.rslt, SubSeq(r.out, 13, 16))
             ELSE IF ub.fault THEN Ret(r.e, "FAULT", << >>)
             ELSE Ret(r.e, r.rslt, << >>)

\* ccbytes: magic_number, version, mlen, access_control.
nt3h_write_capability_cont(e, dev, cc, ccbytes, ub) ==
    IF null_ptr_check(dev) # "NT3H_OK" THEN Ret(e, null_ptr_check(dev), << >>)
    ELSE LET r == read_blocks(e, dev, 0, TRUE, 1)
             src == IF cc THEN ccbytes ELSE NullLoad(ub, 4)
         IN  IF r.rslt # "NT3H_OK" THEN Ret(r.e, r.rslt, << >>)
             ELSE IF ~cc /\ ub.fault THEN Ret(r.e, "FAULT", << >>)
             ELSE write_blocks(r.e, dev, 0, TRUE, Splice(r.out, 12, src), 1)

nt3h_check(e, dev) ==
    IF null_ptr_check(dev) # "NT3H_OK" THEN Ret(e, null_ptr_check(dev), << >>)
    ELSE LET r == read_blocks(e, dev, 0, TRUE, 1)
         IN  Ret(r.e, r.rslt, << >>)

\* The container init seeds a blank device with.
DefaultCC == <<225, 16, 109, 0>>

\* IsBlankCC testing for erased flash (0xFF) in place of zero.
IsBlankCCErased(cc) == cc[1] = 255 /\ cc[2] = 255 /\ cc[3] = 255 /\ cc[4] = 255

\* IsBlankCC with || in place of &&.
IsBlankCCAnyZero(cc) == cc[1] = 0 \/ cc[2] = 0 \/ cc[3] = 0 \/ cc[4] = 0

\* cc.magic_number == 0 && cc.version == 0 && cc.mlen == 0 &&
\* cc.access_control == 0
IsBlankCC(cc) == cc[1] = 0 /\ cc[2] = 0 /\ cc[3] = 0 /\ cc[4] = 0

\* nt3h_init going on to the descriptor after a failed liveness check.
nt3h_init_unchecked(e, dev) ==
    IF null_ptr_check(dev) # "NT3H_OK" THEN Ret(e, null_ptr_check(dev), << >>)
    ELSE LET c == nt3h_check(e, dev)
             r == nt3h_read_capability_cont(c.e, dev, TRUE, NoUB)
             w == nt3h_write_capability_cont(r.e, dev, TRUE, DefaultCC,
                                             NoUB)
         IN  IF r.rslt # "NT3H_OK" THEN Ret(r.e, r.rslt, << >>)
             ELSE IF IsBlankCC(r.out) THEN Ret(w.e, w.rslt, << >>)
             ELSE Ret(r.e, r.rslt, << >>)

\* nt3h_init writing the default descriptor whatever it read.
nt3h_init_reseeding(e, dev) ==
    IF null_ptr_check(dev) # "NT3H_OK" THEN Ret(e, null_ptr_check(dev), << >>)
    ELSE LET c == nt3h_check(e, dev)
             r == nt3h_read_capability_cont(c.e, dev, TRUE, NoUB)
             w == nt3h_write_capability_cont(r.e, dev, TRUE, DefaultCC,
                                             NoUB)
         IN  IF c.rslt # "NT3H_OK" THEN Ret(c.e, c.rslt, << >>)
             ELSE IF r.rslt # "NT3H_OK" THEN Ret(r.e, r.rslt, << >>)
             ELSE Ret(w.e, w.rslt, << >>)

nt3h_init(e, dev) ==
    IF null_ptr_check(dev) # "NT3H_OK" THEN Ret(e, null_ptr_check(dev), << >>)
    ELSE LET c == nt3h_check(e, dev)
             r == nt3h_read_capability_cont(c.e, dev, TRUE, NoUB)
             w == nt3h_write_capability_cont(r.e, dev, TRUE, DefaultCC,
                                             NoUB)
         IN  IF c.rslt # "NT3H_OK" THEN Ret(c.e, c.rslt, << >>)
             ELSE IF r.rslt # "NT3H_OK" THEN Ret(r.e, r.rslt, << >>)
             ELSE IF IsBlankCC(r.out) THEN Ret(w.e, w.rslt, << >>)
             ELSE Ret(r.e, r.rslt, << >>)

\* nt3h_deinit probing the device as nt3h_init does.
nt3h_deinit_probing(e, dev) ==
    IF null_ptr_check(dev) # "NT3H_OK" THEN Ret(e, null_ptr_check(dev), << >>)
    ELSE nt3h_check(e, dev)

nt3h_deinit(e, dev) == Ret(e, null_ptr_check(dev), << >>)


(***************************************************************************)
(* State-machine draft: handle and HAL transport                           *)
(***************************************************************************)
\* A handle pointer (valid: non-null), its State and its cached container.
Handle(valid, state, cc) == [valid |-> valid, State |-> state, CC |-> cc]

\* What an operation of this draft returns: Ret plus the handle after it.
RetH(e, h, rslt, out) == [e |-> e, h |-> h, rslt |-> rslt, out |-> out]

\* hnfc->State as the code reads it.
LoadState(h, ub) == IF h.valid THEN h.State ELSE ub.state

\* hnfc->State = s.
StoreState(h, s) == IF h.valid THEN [h EXCEPT !.State = s] ELSE h

\* The call never returns: the first access through a null handle faults.
NullFault(h, ub) == ~h.valid /\ ub.fault

HAL_I2C_IsDeviceReady(e) ==
    [e |-> Issue(e, "probe", 0, << >>),
     rslt |-> IF Fails(e) THEN e.ferr ELSE "HAL_OK"]

HAL_I2C_Mem_Read(e, address) ==
    [e |-> Issue(e, "read", address, << >>),
     rslt |-> IF Fails(e) THEN e.ferr ELSE "HAL_OK",
     data |-> IF Fails(e) THEN Unfilled ELSE MemRead(e.mem, DevAddr(address))]

HAL_I2C_Mem_Write(e, address, data) ==
    [e |-> [Issue(e, "write", address, data) EXCEPT
                !.mem = IF Fails(e) THEN @
                        ELSE MemWrite(@, DevAddr(address), data)],
     rslt |-> IF Fails(e) THEN e.ferr ELSE "HAL_OK"]

HAL_Delay(e, period) ==
    [e EXCEPT !.calls = Append(@, Call("delay", period, << >>, TRUE))]

HAL_I2C_Master_Transmit(e, pkt) ==
    [e |-> Issue(e, "tx", 0, pkt),
     rslt |-> IF Fails(e) THEN e.ferr ELSE "HAL_OK"]

HAL_I2C_Master_Receive(e) ==
    [e |-> Issue(e, "rx", 0, << >>),
     rslt |-> IF Fails(e) THEN e.ferr ELSE "HAL_OK",
     data |-> IF Fails(e) THEN 0 ELSE e.rxb]

(***************************************************************************)
(* State-machine draft: block transfer engine                              *)
(***************************************************************************)
\* The test NFC_WriteBlocks makes after a successful block write.
NFC_InSram(address) ==
    (address > NFC_SRAM_ADDRESS)
    /\ (address < (NFC_SRAM_ADDRESS + NFC_SRAM_LENGTH))

\* The write loop returning at a failed write without the store of READY.
RECURSIVE NFC_WriteBlocks_loop_stuck(_, _, _, _, _)
NFC_WriteBlocks_loop_stuck(e, h, address, buf, noOfBlocks) ==
    IF noOfBlocks = 0
    THEN RetH(e, StoreState(h, "NFC_STATE_READY"), "NFC_OK", << >>)
    ELSE LET r == HAL_I2C_Mem_Write(e, address,
                                    SubSeq(buf, 1, NFC_I2C_MEM_BLOCK_SIZE))
             e2 == IF NFC_InSram(address) THEN r.e ELSE HAL_Delay(r.e, 4)
         IN  IF r.rslt # "HAL_OK"
             THEN RetH(r.e, h, "NFC_ERROR", << >>)
             ELSE NFC_WriteBlocks_loop_stuck(e2, h, (address + 1) % U16,
                      SubSeq(buf, NFC_I2C_MEM_BLOCK_SIZE + 1, Len(buf)),
                      noOfBlocks - 1)

RECURSIVE NFC_WriteBlocks_loop(_, _, _, _, _)
NFC_WriteBlocks_loop(e, h, address, buf, noOfBlocks) ==
    IF noOfBlocks = 0
    THEN RetH(e, StoreState(h, "NFC_STATE_READY"), "NFC_OK", << >>)
    ELSE LET r == HAL_I2C_Mem_Write(e, address,
                                    SubSeq(buf, 1, NFC_I2C_MEM_BLOCK_SIZE))
             e2 == IF NFC_InSram(address) THEN r.e ELSE HAL_Delay(r.e, 4)
         IN  IF r.rslt # "HAL_OK"
             THEN RetH(r.e, StoreState(h, "NFC_STATE_READY"), "NFC_ERROR",
                       << >>)
             ELSE NFC_WriteBlocks_loop(e2, h, (address + 1) % U16,
                      SubSeq(buf, NFC_I2C_MEM_BLOCK_SIZE + 1, Len(buf)),
                      noOfBlocks - 1)

\* block: whether the block pointer is non-null; buf: the block array.
NFC_WriteBlocks(e, h, address, block, buf, noOfBlocks, ub) ==
    IF NullFault(h, ub) THEN RetH(e, h, "FAULT", << >>)
    ELSE IF LoadState(h, ub) = "NFC_STATE_READY"
    THEN IF ~block \/ noOfBlocks = 0 THEN RetH(e, h, "NFC_ERROR", << >>)
         ELSE NFC_WriteBlocks_loop(e, StoreState(h, "NFC_STATE_BUSY"),
                                   address, buf, noOfBlocks)
    ELSE RetH(e, h, "NFC_BUSY", << >>)

RECURSIVE NFC_ReadBlocks_loop(_, _, _, _, _)
NFC_ReadBlocks_loop(e, h, address, buf, noOfBlocks) ==
    IF noOfBlocks = 0
    THEN RetH(e, StoreState(h, "NFC_STATE_READY"), "NFC_OK", buf)
    ELSE LET r == HAL_I2C_Mem_Read(e, address)
         IN  IF r.rslt # "HAL_OK"
             THEN RetH(r.e, StoreState(h, "NFC_STATE_READY"), "NFC_ERROR",
                       buf \o r.data)
             ELSE NFC_ReadBlocks_loop(r.e, h, (address + 1) % U16,
                                      buf \o r.data, noOfBlocks - 1)

\* block: whether the block pointer is non-null.  out is the block array.
NFC_ReadBlocks(e, h, address, block, noOfBlocks, ub) ==
    IF NullFault(h, ub) THEN RetH(e, h, "FAULT", << >>)
    ELSE IF LoadState(h, ub) = "NFC_STATE_READY"
    THEN IF ~block \/ noOfBlocks = 0 THEN RetH(e, h, "NFC_ERROR", << >>)
         ELSE NFC_ReadBlocks_loop(e, StoreState(h, "NFC_STATE_BUSY"),
                                  address, << >>, noOfBlocks)
    ELSE RetH(e, h, "NFC_BUSY", << >>)

\* The block count NFC_ReadMemory, NFC_WriteMemory and NFC_EraseMemory
\* compute inline (volatile uint16_t blocksNeeded).
NFC_blocksNeeded(byteOffset, size) ==
    LET whole == (size \div NFC_I2C_MEM_BLOCK_SIZE) % U16
        partialBytes == (size % NFC_I2C_MEM_BLOCK_SIZE) % U16
        withPartial == (whole + (IF partialBytes # 0 THEN 1 ELSE 0)) % U16
    IN  (withPartial
         + (IF (byteOffset + size) > NFC_I2C_MEM_BLOCK_SIZE THEN 1 ELSE 0))
        % U16

\* address += byteOffset / 16 (uint16_t).
NFC_NormAddr(address, byteOffset) ==
    (address + (byteOffset \div NFC_I2C_MEM_BLOCK_SIZE)) % U16

\* byteOffset -= (byteOffset / 16) * 16.
NFC_NormOffset(byteOffset) ==
    byteOffset - (byteOffset \div NFC_I2C_MEM_BLOCK_SIZE) * NFC_I2C_MEM_BLOCK_SIZE

(***************************************************************************)
(* State-machine draft: byte-span translator                               *)
(***************************************************************************)
\* bytes: whether the caller's buffer pointer is non-null; the code copies
\* through it unchecked.
NFC_ReadMemory(e, h, address, byteOffset, bytes, size, ub) ==
    LET a == NFC_NormAddr(address, byteOffset)
        off == NFC_NormOffset(byteOffset)
        blocksNeeded == NFC_blocksNeeded(off, size)
        r == NFC_ReadBlocks(e, h, a, TRUE, blocksNeeded, ub)
    IN  IF r.rslt = "FAULT" THEN RetH(r.e, r.h, "FAULT", << >>)
        ELSE IF r.rslt # "NFC_OK"
        THEN RetH(r.e, r.h, "NFC_ERROR", CallerBuf(size))
        ELSE IF (~bytes \/ Overruns(r.out, off, size)) /\ ub.fault
        THEN RetH(r.e, r.h, "FAULT", << >>)
        ELSE IF bytes
        THEN RetH(r.e, r.h, "NFC_OK", BufLoad(r.out, off, size, ub))
        ELSE RetH(r.e, r.h, "NFC_OK", << >>)

\* Maps the status of the inner block write to the caller's.
NFC_Wrap(w) ==
    IF w.rslt = "FAULT" \/ w.rslt = "NFC_OK" THEN w
    ELSE RetH(w.e, w.h, "NFC_ERROR", w.out)

\* data: the caller's buffer (read when bytes is non-null).
NFC_WriteMemory(e, h, address, byteOffset, bytes, data, size, ub) ==
    LET a == NFC_NormAddr(address, byteOffset)
        off == NFC_NormOffset(byteOffset)
        blocksNeeded == NFC_blocksNeeded(off, size)
        r == NFC_ReadBlocks(e, h, a, TRUE, blocksNeeded, ub)
        src == IF bytes THEN SubSeq(data, 1, size) ELSE NullLoad(ub, size)
    IN  IF r.rslt = "FAULT" THEN RetH(r.e, r.h, "FAULT", << >>)
        ELSE IF r.rslt # "NFC_OK" THEN RetH(r.e, r.h, "NFC_ERROR", << >>)
        ELSE IF (~bytes \/ Overruns(r.out, off, size)) /\ ub.fault
        THEN RetH(r.e, r.h, "FAULT", << >>)
        ELSE NFC_Wrap(NFC_WriteBlocks(r.e, r.h, a, TRUE,
                                      Splice(r.out, off, src), blocksNeeded,
                                      ub))

NFC_EraseMemory(e, h, address, byteOffset, size, ub) ==
    LET a == NFC_NormAddr(address, byteOffset)
        off == NFC_NormOffset(byteOffset)
        blocksNeeded == NFC_blocksNeeded(off, size)
        r == NFC_ReadBlocks(e, h, a, TRUE, blocksNeeded, ub)
    IN  IF r.rslt = "FAULT" THEN RetH(r.e, r.h, "FAULT", << >>)
        ELSE IF r.rslt # "NFC_OK" THEN RetH(r.e, r.h, "NFC_ERROR", << >>)
        ELSE IF Overruns(r.out, off, size) /\ ub.fault
        THEN RetH(r.e, r.h, "FAULT", << >>)
        ELSE NFC_Wrap(NFC_WriteBlocks(r.e, r.h, a, TRUE,
                          Splice(r.out, off, Fill(NFC_MEMORY_ERASE_VALUE, size)),
                          blocksNeeded, ub))


(***************************************************************************)
(* State-machine draft: register accessor                                  *)
(***************************************************************************)
\* regData: whether the output pointer is non-null.
NFC_ReadRegister(e, h, memAddress, regAddress, regData, ub) ==
    IF NullFault(h, ub) THEN RetH(e, h, "FAULT", << >>)
    ELSE IF LoadState(h, ub) = "NFC_STATE_READY"
    THEN IF ~regData THEN RetH(e, h, "NFC_ERROR", CallerBuf(1))
         ELSE LET w == HAL_I2C_Master_Transmit(e, <<memAddress, regAddress>>)
                  r == HAL_I2C_Master_Receive(w.e)
                  ready == StoreState(h, "NFC_STATE_READY")
              IN  IF w.rslt # "HAL_OK"
                  THEN RetH(w.e, ready, "NFC_ERROR", CallerBuf(1))
                  ELSE IF r.rslt # "HAL_OK"
                  THEN RetH(r.e, ready, "NFC_ERROR", CallerBuf(1))
                  ELSE RetH(r.e, ready, "NFC_OK", <<r.data>>)
    ELSE RetH(e, h, "NFC_BUSY", CallerBuf(1))

NFC_WriteRegister(e, h, memAddress, regAddress, mask, regData, ub) ==
    IF NullFault(h, ub) THEN RetH(e, h, "FAULT", << >>)
    ELSE IF LoadState(h, ub) = "NFC_STATE_READY"
    THEN LET w == HAL_I2C_Master_Transmit(e,
                      <<memAddress, regAddress, mask, regData>>)
             ready == StoreState(h, "NFC_STATE_READY")
         IN  IF w.rslt # "HAL_OK" THEN RetH(w.e, ready, "NFC_ERROR", << >>)
             ELSE RetH(w.e, ready, "NFC_OK", << >>)
    ELSE RetH(e, h, "NFC_BUSY", << >>)

NFC_WriteConfig(e, h, memAddress, regAddress, mask, regData, ub) ==
    LET r == NFC_ReadBlocks(e, h, memAddress, TRUE, 1, ub)
        old == BufLoad(r.out, regAddress, 1, ub)[1]
    IN  IF r.rslt = "FAULT" THEN RetH(r.e, r.h, "FAULT", << >>)
        ELSE IF r.rslt # "NFC_OK" THEN RetH(r.e, r.h, "NFC_ERROR", << >>)
        ELSE IF Overruns(r.out, regAddress, 1) /\ ub.fault
        THEN RetH(r.e, r.h, "FAULT", << >>)
        ELSE NFC_Wrap(NFC_WriteBlocks(r.e, r.h, memAddress, TRUE,
                 StoreAt(r.out, regAddress, ConfigMerge(old, mask, regData)),
                 1, ub))

\* regData: whether the output pointer is non-null.
NFC_ReadConfig(e, h, memAddress, regAddress, regData, ub) ==
    IF ~regData THEN RetH(e, h, "NFC_ERROR", CallerBuf(1))
    ELSE LET r == NFC_ReadBlocks(e, h, memAddress, TRUE, 1, ub)
         IN  IF r.rslt = "FAULT" THEN RetH(r.e, r.h, "FAULT", << >>)
             ELSE IF r.rslt # "NFC_OK"
             THEN RetH(r.e, r.h, "NFC_ERROR", CallerBuf(1))
             ELSE IF Overruns(r.out, regAddress, 1) /\ ub.fault
             THEN RetH(r.e, r.h, "FAULT", << >>)
             ELSE RetH(r.e, r.h, "NFC_OK", BufLoad(r.out, regAddress, 1, ub))

NFC_WriteAddr(e, h, addr, ub) ==
    LET r == NFC_ReadBlocks(e, h, 0, TRUE, 1, ub)
    IN  IF r.rslt = "FAULT" THEN RetH(r.e, r.h, "FAULT", << >>)
        ELSE IF r.rslt # "NFC_OK" THEN RetH(r.e, r.h, "NFC_ERROR", << >>)
        ELSE NFC_Wrap(NFC_WriteBlocks(r.e, r.h, 0, TRUE,
                                      [r.out EXCEPT ![1] = addr], 1, ub))

\* isFieldPresent: whether the output pointer is non-null; the code stores
\* through it unchecked.
NFC_ReadFieldPresent(e, h, isFieldPresent, ub) ==
    LET r == NFC_ReadRegister(e, h, 254, 6, TRUE, ub)
    IN  IF r.rslt = "FAULT" THEN RetH(r.e, r.h, "FAULT", << >>)
        ELSE IF r.rslt # "NFC_OK" THEN RetH(r.e, r.h, "NFC_ERROR", CallerBuf(1))
        ELSE IF isFieldPresent
        THEN RetH(r.e, r.h, "NFC_OK", <<BitAnd(r.out[1], 1, 8)>>)
        ELSE IF ub.fault THEN RetH(r.e, r.h, "FAULT", << >>)
        ELSE RetH(r.e, r.h, "NFC_OK", << >>)

(***************************************************************************)
(* State-machine draft: capability container and device-level operations   *)
(***************************************************************************)
\* memcpy(&hnfc->CC, &block.Data[12], 4)
NFC_ReadCC(e, h, ub) ==
    LET r == NFC_ReadBlocks(e, h, 0, TRUE, 1, ub)
    IN  IF r.rslt = "FAULT" THEN RetH(r.e, r.h, "FAULT", << >>)
        ELSE IF r.rslt # "NFC_OK" THEN RetH(r.e, r.h, "NFC_ERROR", << >>)
        ELSE IF ~h.valid /\ ub.fault THEN RetH(r.e, r.h, "FAULT", << >>)
        ELSE RetH(r.e,
                  IF h.valid THEN [r.h EXCEPT !.CC = SubSeq(r.out, 13, 16)]
                  ELSE r.h,
                  "NFC_OK", << >>)

\* cc: whether the container pointer is non-null; ccbytes: MagicNumber,
\* Version, MLEN, AccessControl.
NFC_WriteCC(e, h, cc, ccbytes, ub) ==
    LET r == NFC_ReadBlocks(e, h, 0, TRUE, 1, ub)
        src == IF cc THEN ccbytes ELSE NullLoad(ub, 4)
    IN  IF r.rslt = "FAULT" THEN RetH(r.e, r.h, "FAULT", << >>)
        ELSE IF r.rslt # "NFC_OK" THEN RetH(r.e, r.h, "NFC_ERROR", << >>)
        ELSE IF ~cc /\ ub.fault THEN RetH(r.e, r.h, "FAULT", << >>)
        ELSE NFC_Wrap(NFC_WriteBlocks(r.e, r.h, 0, TRUE,
                                      Splice(r.out, 12, src), 1, ub))

NFC_Init(e, h) ==
    IF ~h.valid THEN RetH(e, h, "NFC_ERROR", << >>)
    ELSE LET p == HAL_I2C_IsDeviceReady(e)
             r == NFC_ReadCC(p.e, StoreState(h, "NFC_STATE_READY"), NoUB)
             w == NFC_WriteCC(r.e, r.h, TRUE, DefaultCC, NoUB)
         IN  IF p.rslt # "HAL_OK"
             THEN RetH(p.e, StoreState(h, "NFC_STATE_RESET"), "NFC_ERROR",
                       << >>)
             ELSE IF r.rslt # "NFC_OK"
             THEN RetH(r.e, StoreState(r.h, "NFC_STATE_RESET"), "NFC_ERROR",
                       << >>)
             ELSE IF IsBlankCC(r.h.CC)
             THEN IF w.rslt # "NFC_OK" THEN RetH(w.e, w.h, "NFC_ERROR", << >>)
                  ELSE RetH(w.e, w.h, "NFC_OK", << >>)
             ELSE RetH(r.e, r.h, "NFC_OK", << >>)

\* NFC_DeInit returning NFC_OK without storing NFC_STATE_RESET.
NFC_DeInit_state_kept(e, h) ==
    IF ~h.valid THEN RetH(e, h, "NFC_ERROR", << >>)
    ELSE RetH(e, h, "NFC_OK", << >>)

NFC_DeInit(e, h) ==
    IF ~h.valid THEN RetH(e, h, "NFC_ERROR", << >>)
    ELSE RetH(e, StoreState(h, "NFC_STATE_RESET"), "NFC_OK", << >>)


(***************************************************************************)
(* State                                                                   *)
(***************************************************************************)
VARIABLES
    mem,        \* device memory
    hnfc,       \* the state-machine draft's handle (State, CC)
    op,         \* the last operation called ("none" before the first)
    arg,        \* its arguments
    rslt,       \* the status it returned ("FAULT": it never returned)
    out,        \* the caller's output buffer after it
    calls,      \* the transport calls it issued, in order
    memPrev,    \* device memory before it
    prev,       \* the operation before it: its name, arguments, status
    nops,       \* operations called so far
    run         \* the call in progress, where calls are taken step by step

vars == <<mem, hnfc, op, arg, rslt, out, calls, memPrev, prev, nops, run>>

\* The arguments of an operation that takes none.  state: the State of the
\* program's handle when an operation of the state-machine draft starts.
NoArgs ==
    [dev |-> Dev(TRUE, TRUE, TRUE, TRUE), addr |-> 0, offset |-> 0, len |-> 0,
     buf |-> TRUE, data |-> << >>, cnt |-> 0, reg |-> 0, mask |-> 0,
     val |-> 0, rxb |-> 0, failAt |-> 0, ub |-> NoUB, state |-> "none"]

\* The bytes a caller writes: len bytes, none of them zero, no two
\* neighbours equal.
Pattern(seed, len) == [i \in 1..len |-> ((seed + 7 * i) % 255) + 1]

EmptyMem == [x \in {} |-> DefaultBlock(0)]

\* A device whose block 0 carries the container cc.
MemWithCC(cc) == MemWrite(EmptyMem, 0, Splice(DefaultBlock(0), 12, cc))

BlankCC == <<0, 0, 0, 0>>

\* The handle as the program starts with it (a zero-initialised global).
FreshHandle == Handle(TRUE, "NFC_STATE_RESET", BlankCC)

\* The handle after a successful NFC_Init on a device carrying cc.
ReadyHandle(cc) == Handle(TRUE, "NFC_STATE_READY", cc)

\* No call in progress.  late: the status of the call that came in during
\* the call in progress, lateAt: the step it came in at, lateInside:
\* whether it came in between the first and the last transfer of the call,
\* log: who issued each transfer on the bus, in order.
NoCall ==
    [name |-> "none", pc |-> "idle", phase |-> "none", base |-> 0, addr |-> 0,
     left |-> 0, buf |-> << >>, rslt |-> "none", calls |-> << >>,
     late |-> "none", lateOp |-> "none", lateAt |-> "none",
     lateInside |-> FALSE, log |-> << >>]

InitWith(m, h) ==
    /\ run = NoCall
    /\ mem = m
    /\ hnfc = h
    /\ op = "none"
    /\ arg = NoArgs
    /\ rslt = "none"
    /\ out = << >>
    /\ calls = << >>
    /\ memPrev = m
    /\ prev = [op |-> "none", arg |-> NoArgs, rslt |-> "none", out |-> << >>]
    /\ nops = 0

\* One operation of the stateless draft: r is what it returned.
Do(name, a, r) ==
    /\ nops < MaxOps
    /\ nops' = nops + 1
    /\ prev' = [op |-> op, arg |-> arg, rslt |-> rslt, out |-> out]
    /\ memPrev' = mem
    /\ op' = name
    /\ arg' = a
    /\ rslt' = r.rslt
    /\ out' = r.out
    /\ calls' = r.e.calls
    /\ mem' = r.e.mem
    /\ UNCHANGED <<hnfc, run>>

\* One operation of the state-machine draft on the handle h (the program's
\* handle, or a null one).
DoH(name, a, r) ==
    /\ nops < MaxOps
    /\ nops' = nops + 1
    /\ prev' = [op |-> op, arg |-> arg, rslt |-> rslt, out |-> out]
    /\ memPrev' = mem
    /\ op' = name
    /\ arg' = [a EXCEPT !.state = hnfc.State]
    /\ rslt' = r.rslt
    /\ out' = r.out
    /\ calls' = r.e.calls
    /\ mem' = r.e.mem
    /\ hnfc' = IF r.h.valid THEN r.h ELSE hnfc
    /\ UNCHANGED run

\* The handle an operation of the state-machine draft is called with.
TheHandle(valid) == IF valid THEN hnfc ELSE Handle(FALSE, "NFC_STATE_RESET", BlankCC)

\* Failure statuses a transport function of the stateless draft returns.
NT3H_Failures == {"NT3H_E_DEV_NOT_FOUND", "NT3H_E_INVALID_ARGS"}

\* Failure statuses the HAL returns.
HAL_Failures == {"HAL_ERROR"}

(***************************************************************************)
(* Actions: byte-span translator.  S: the (addr, offset, len) spans called *)
(* with; D: the handles; B: whether the buffer pointer is non-null;        *)
(* F: the fallible call that fails (0: none); U: the build's null access.  *)
(***************************************************************************)
ReadBytes(S, D, B, F, U) ==
    \E s \in S, dev \in D, b \in B, f \in F, ferr \in NT3H_Failures, ub \in U :
        Do("nt3h_read_bytes",
           [NoArgs EXCEPT !.dev = dev, !.addr = s[1], !.offset = s[2],
                          !.len = s[3], !.buf = b, !.failAt = f, !.ub = ub],
           nt3h_read_bytes(Env(mem, f, ferr, 0), dev, s[1], s[2], b, s[3],
                           ub))

WriteBytes(S, D, B, F, U) ==
    \E s \in S, dev \in D, b \in B, f \in F, ferr \in NT3H_Failures, ub \in U :
        Do("nt3h_write_bytes",
           [NoArgs EXCEPT !.dev = dev, !.addr = s[1], !.offset = s[2],
                          !.len = s[3], !.buf = b, !.failAt = f, !.ub = ub,
                          !.data = Pattern(s[1] + s[2], s[3])],
           nt3h_write_bytes(Env(mem, f, ferr, 0), dev, s[1], s[2], b,
                            Pattern(s[1] + s[2], s[3]), s[3], ub))

EraseBytes(S, D, F, U) ==
    \E s \in S, dev \in D, f \in F, ferr \in NT3H_Failures, ub \in U :
        Do("nt3h_erase_bytes",
           [NoArgs EXCEPT !.dev = dev, !.addr = s[1], !.offset = s[2],
                          !.len = s[3], !.failAt = f, !.ub = ub],
           nt3h_erase_bytes(Env(mem, f, ferr, 0), dev, s[1], s[2], s[3], ub))

ReadMemory(S, D, B, F, U) ==
    \E s \in S, dev \in D, b \in B, f \in F, ferr \in HAL_Failures, ub \in U :
        DoH("NFC_ReadMemory",
            [NoArgs EXCEPT !.dev = dev, !.addr = s[1], !.offset = s[2],
                           !.len = s[3], !.buf = b, !.failAt = f, !.ub = ub],
            NFC_ReadMemory(Env(mem, f, ferr, 0), TheHandle(dev.valid), s[1],
                           s[2], b, s[3], ub))

WriteMemory(S, D, B, F, U) ==
    \E s \in S, dev \in D, b \in B, f \in F, ferr \in HAL_Failures, ub \in U :
        DoH("NFC_WriteMemory",
            [NoArgs EXCEPT !.dev = dev, !.addr = s[1], !.offset = s[2],
                           !.len = s[3], !.buf = b, !.failAt = f, !.ub = ub,
                           !.data = Pattern(s[1] + s[2], s[3])],
            NFC_WriteMemory(Env(mem, f, ferr, 0), TheHandle(dev.valid), s[1],
                            s[2], b, Pattern(s[1] + s[2], s[3]), s[3], ub))

EraseMemory(S, D, F, U) ==
    \E s \in S, dev \in D, f \in F, ferr \in HAL_Failures, ub \in U :
        DoH("NFC_EraseMemory",
            [NoArgs EXCEPT !.dev = dev, !.addr = s[1], !.offset = s[2],
                           !.len = s[3], !.failAt = f, !.ub = ub],
            NFC_EraseMemory(Env(mem, f, ferr, 0), TheHandle(dev.valid), s[1],
                            s[2], s[3], ub))

(***************************************************************************)
(* Input sets                                                              *)
(***************************************************************************)
ValidDev == Dev(TRUE, TRUE, TRUE, TRUE)

\* (addr, offset, len): inside one block; ending on a block boundary; the
\* spans of 2 to 5 blocks, with an offset past the first block, across the
\* 8-bit and the 16-bit wrap of the block address.
Spans ==
    { <<1, 0, 1>>, <<1, 5, 11>>, <<3, 0, 16>>, <<1, 15, 2>>, <<1, 8, 16>>,
      <<1, 0, 17>>, <<0, 19, 40>>, <<4, 0, 64>>, <<255, 15, 64>>,
      <<65535, 16, 2>>, <<2, 9999, 3>> }

\* A span of more blocks than the 8-bit block count of the stateless draft
\* holds.
LongSpans == { <<0, 0, 4097>> }

\* The build's choices at an access that is undefined: it faults, or it
\* carries on.
Faulting == UB(TRUE, <<0>>, "NFC_STATE_RESET")

(***************************************************************************)
(* Specification of the byte-span translator: both drafts, valid handles   *)
(* and buffers, a transport that never fails.                              *)
(***************************************************************************)
InitBytes == InitWith(MemWithCC(DefaultCC), ReadyHandle(DefaultCC))

NextBytes ==
    \/ ReadBytes(Spans, {ValidDev}, {TRUE}, {0}, {NoUB})
    \/ WriteBytes(Spans, {ValidDev}, {TRUE}, {0}, {NoUB})
    \/ EraseBytes(Spans \cup LongSpans, {ValidDev}, {0}, {NoUB, Faulting})
    \/ ReadMemory(Spans, {ValidDev}, {TRUE}, {0}, {NoUB})
    \/ WriteMemory(Spans, {ValidDev}, {TRUE}, {0}, {NoUB})
    \/ EraseMemory(Spans, {ValidDev}, {0}, {NoUB})

SpecBytes == InitBytes /\ [][NextBytes]_vars


(***************************************************************************)
(* Reading the state                                                       *)
(***************************************************************************)
OkStatus == {"NT3H_OK", "NFC_OK"}

ReadOps == {"nt3h_read_bytes", "NFC_ReadMemory"}
WriteOps == {"nt3h_write_bytes", "NFC_WriteMemory"}
EraseOps == {"nt3h_erase_bytes", "NFC_EraseMemory"}
ByteOps == ReadOps \cup WriteOps \cup EraseOps

\* The transport calls of one kind the last operation issued.
CallsOf(kind) == {i \in 1..Len(calls) : calls[i].k = kind}

\* The transport calls of the last operation that returned a failure.
FailedCalls == {i \in 1..Len(calls) : ~calls[i].ok}

\* The last operation belongs to a draft whose transport returns the
\* driver's own status type.
ReturnsTransportStatus == arg.state = "none"

CeilDiv(a, b) == (a + b - 1) \div b

\* Byte i (from 0) of the range (a.addr, a.offset, a.len) in the memory m.
RangeByte(m, a, i) ==
    MemRead(m, DevAddr((a.addr + ((a.offset + i) \div 16)) % U16))
        [((a.offset + i) % 16) + 1]

SameSpan(a, b) ==
    a.addr = b.addr /\ a.offset = b.offset /\ a.len = b.len

\* The last operation and the one before it are from the same draft.
StatelessOps == {"nt3h_read_bytes", "nt3h_write_bytes", "nt3h_erase_bytes"}
SameDraft == (op \in StatelessOps) = (prev.op \in StatelessOps)

(***************************************************************************)
(* Claims on the byte-span translator                                      *)
(***************************************************************************)
\* C1: for every offset < 10000 and length > 0, a byte operation fetches
\* exactly ceil((offset mod 16 + length) / 16) blocks.
C1_BlockCountIsMinimal ==
    (op \in ByteOps /\ rslt \in OkStatus /\ arg.offset < 10000 /\ arg.len > 0)
        => Cardinality(CallsOf("read"))
               = CeilDiv((arg.offset % 16) + arg.len, 16)

\* C1's failing case: a successful read of 40 bytes from offset 19 fetched
\* one block more than the three that hold the requested bytes.
C1_Witness ==
    /\ op = "nt3h_read_bytes" /\ rslt = "NT3H_OK"
    /\ arg.offset = 19 /\ arg.len = 40
    /\ Cardinality(CallsOf("read")) = 4

\* C2: a successful write of 1..64 bytes followed at once by a successful
\* read of the same (address, offset, length) returns the bytes written.
C2_RoundTrip ==
    (/\ prev.op \in WriteOps /\ op \in ReadOps /\ SameDraft
     /\ prev.rslt \in OkStatus /\ rslt \in OkStatus
     /\ SameSpan(prev.arg, arg)
     /\ arg.len \in 1..64)
        => out = prev.arg.data

\* C2's case: a written range that spans blocks has been read back.
C2_Witness ==
    /\ prev.op = "nt3h_write_bytes" /\ op = "nt3h_read_bytes"
    /\ prev.rslt \in OkStatus /\ rslt \in OkStatus
    /\ SameSpan(prev.arg, arg)
    /\ (arg.offset % 16) + arg.len > 32
    /\ out = prev.arg.data

\* C3: after a successful erase every byte of the range is 0x00, and a
\* second successful erase of the same range leaves device memory as the
\* first one left it.
C3_EraseIdempotent ==
    /\ (op \in EraseOps /\ rslt \in OkStatus)
           => \A i \in 0..(arg.len - 1) : RangeByte(mem, arg, i) = 0
    /\ (/\ op \in EraseOps /\ prev.op = op
        /\ rslt \in OkStatus /\ prev.rslt \in OkStatus
        /\ SameSpan(prev.arg, arg))
           => mem = memPrev

\* C3's failing case: an erase of more than 255 blocks returned success
\* and left bytes of the range as they were.
C3_Witness ==
    /\ op = "nt3h_erase_bytes" /\ rslt = "NT3H_OK"
    /\ arg.len > 255 * 16
    /\ \E i \in 0..(arg.len - 1) :
           /\ RangeByte(mem, arg, i) # 0
           /\ RangeByte(mem, arg, i) = RangeByte(memPrev, arg, i)

\* C13: in a write_bytes or erase_bytes call every block write to an
\* address follows a successful block read of that address in the same
\* call, every block read of the call comes before its first block write,
\* and a successful 1-byte write costs exactly one block read followed by
\* exactly one block write.
C13_ReadBeforeWrite ==
    (op \in WriteOps \cup EraseOps) =>
        /\ \A i \in CallsOf("write") :
               \E j \in CallsOf("read") :
                   j < i /\ calls[j].ok /\ calls[j].a = calls[i].a
        /\ \A i \in CallsOf("write"), j \in CallsOf("read") : j < i
        /\ (op \in WriteOps /\ arg.len = 1 /\ rslt \in OkStatus) =>
               /\ Cardinality(CallsOf("read")) = 1
               /\ Cardinality(CallsOf("write")) = 1

\* C13's case: a 1-byte write went through as one block read, then one
\* block write of the same address.
C13_Witness ==
    /\ op = "nt3h_write_bytes" /\ arg.len = 1 /\ rslt = "NT3H_OK"
    /\ Len(calls) >= 2
    /\ calls[1].k = "read" /\ calls[2].k = "write"
    /\ calls[1].a = calls[2].a

(***************************************************************************)
(* Actions: block transfer engine.  A: block addresses; C: block counts.   *)
(***************************************************************************)
ReadBlocks(A, C, D, B, F) ==
    \E a \in A, c \in C, dev \in D, b \in B, f \in F, ferr \in NT3H_Failures :
        Do("read_blocks",
           [NoArgs EXCEPT !.dev = dev, !.addr = a, !.cnt = c, !.buf = b,
                          !.failAt = f],
           read_blocks(Env(mem, f, ferr, 0), dev, a, b, c))

WriteBlocks(A, C, D, B, F) ==
    \E a \in A, c \in C, dev \in D, b \in B, f \in F, ferr \in NT3H_Failures :
        Do("write_blocks",
           [NoArgs EXCEPT !.dev = dev, !.addr = a, !.cnt = c, !.buf = b,
                          !.failAt = f, !.data = Pattern(a, 16 * c)],
           write_blocks(Env(mem, f, ferr, 0), dev, a, b, Pattern(a, 16 * c),
                        c))

NfcReadBlocks(A, C, D, B, F, U) ==
    \E a \in A, c \in C, dev \in D, b \in B, f \in F, ferr \in HAL_Failures,
       ub \in U :
        DoH("NFC_ReadBlocks",
            [NoArgs EXCEPT !.dev = dev, !.addr = a, !.cnt = c, !.buf = b,
                           !.failAt = f, !.ub = ub],
            NFC_ReadBlocks(Env(mem, f, ferr, 0), TheHandle(dev.valid), a, b,
                           c, ub))

NfcWriteBlocks(A, C, D, B, F, U) ==
    \E a \in A, c \in C, dev \in D, b \in B, f \in F, ferr \in HAL_Failures,
       ub \in U :
        DoH("NFC_WriteBlocks",
            [NoArgs EXCEPT !.dev = dev, !.addr = a, !.cnt = c, !.buf = b,
                           !.failAt = f, !.ub = ub,
                           !.data = Pattern(a, 16 * c)],
            NFC_WriteBlocks(Env(mem, f, ferr, 0), TheHandle(dev.valid), a, b,
                            Pattern(a, 16 * c), c, ub))

(***************************************************************************)
(* Specification of the block transfer engine, and of the byte-span        *)
(* translator on empty spans: both drafts, valid handles and buffers, a    *)
(* transport that never fails.                                             *)
(***************************************************************************)
\* The block addresses around the two ends of the SRAM region.
EdgeAddrs ==
    { NT3H_SRAM_ADDRESS - 1, NT3H_SRAM_ADDRESS,
      NT3H_SRAM_ADDRESS + NT3H_SRAM_LENGTH - 1,
      NT3H_SRAM_ADDRESS + NT3H_SRAM_LENGTH }

Counts == {0, 1, 2}

\* Spans of no byte.
EmptySpans == { <<1, 0, 0>>, <<0, 19, 0>> }

InitBlocks == InitWith(MemWithCC(DefaultCC), ReadyHandle(DefaultCC))

NextBlocks ==
    \/ ReadBlocks(EdgeAddrs, Counts, {ValidDev}, {TRUE}, {0})
    \/ WriteBlocks(EdgeAddrs, Counts, {ValidDev}, {TRUE}, {0})
    \/ NfcReadBlocks(EdgeAddrs, Counts, {ValidDev}, {TRUE}, {0}, {NoUB})
    \/ NfcWriteBlocks(EdgeAddrs, Counts, {ValidDev}, {TRUE}, {0}, {NoUB})
    \/ ReadBytes(EmptySpans, {ValidDev}, {TRUE}, {0}, {NoUB})
    \/ WriteBytes(EmptySpans, {ValidDev}, {TRUE}, {0}, {NoUB})
    \/ EraseBytes(EmptySpans, {ValidDev}, {0}, {NoUB})
    \/ ReadMemory(EmptySpans, {ValidDev}, {TRUE}, {0}, {NoUB})
    \/ WriteMemory(EmptySpans, {ValidDev}, {TRUE}, {0}, {NoUB})
    \/ EraseMemory(EmptySpans, {ValidDev}, {0}, {NoUB})

SpecBlocks == InitBlocks /\ [][NextBlocks]_vars

(***************************************************************************)
(* Claims on the block transfer engine                                     *)
(***************************************************************************)
BlockWriteOps == {"write_blocks", "NFC_WriteBlocks"}
BlockOps == {"read_blocks", "NFC_ReadBlocks"} \cup BlockWriteOps

\* The i-th transport call of the last operation is followed by a delay.
DelayFollows(i) == i < Len(calls) /\ calls[i + 1].k = "delay"

\* The address range the specification gives the SRAM region.
SramRegion == 248..(248 + 64 - 1)

\* C4: after a successful block write the 4 ms delay is called if and only
\* if the block address is outside [0xF8, 0xF8 + 64).
C4_SettleDelayBoundary ==
    (op \in BlockWriteOps /\ rslt \in OkStatus)
        => \A i \in CallsOf("write") :
               DelayFollows(i) <=> calls[i].a \notin SramRegion

\* C4's failing case: a successful write of block 0xF8 was followed by the
\* delay.
C4_Witness ==
    /\ op \in BlockWriteOps /\ rslt \in OkStatus
    /\ \E i \in CallsOf("write") : calls[i].a = 248 /\ DelayFollows(i)

\* The block transfers of the last operation, in the order issued.
Transfers == SelectSeq(calls, LAMBDA c : c.k \in {"read", "write"})

\* The i-th block (from 0) of a buffer of blocks.
BlockOf(buf, i) ==
    SubSeq(buf, i * NT3H_I2C_MEM_BLOCK_SIZE + 1,
           (i + 1) * NT3H_I2C_MEM_BLOCK_SIZE)

\* C23: a successful read_blocks or write_blocks of count blocks at addr
\* issues exactly count block transfers, all of its own direction, one
\* 16-byte block each, at addr, addr+1, ..., addr+count-1 in this order,
\* the i-th transfer carrying the i-th block of the buffer.
C23_OneBlockPerTransfer ==
    (op \in BlockOps /\ rslt \in OkStatus) =>
        /\ Len(Transfers) = arg.cnt
        /\ \A i \in 1..Len(Transfers) :
               /\ Transfers[i].k = (IF op \in BlockWriteOps THEN "write"
                                    ELSE "read")
               /\ Transfers[i].a = (arg.addr + (i - 1)) % U16
               /\ op \in BlockWriteOps =>
                      /\ Len(Transfers[i].pkt) = NT3H_I2C_MEM_BLOCK_SIZE
                      /\ Transfers[i].pkt = BlockOf(arg.data, i - 1)
               /\ op \notin BlockWriteOps =>
                      BlockOf(out, i - 1)
                          = MemRead(memPrev, DevAddr(Transfers[i].a))
        /\ op \notin BlockWriteOps =>
               Len(out) = arg.cnt * NT3H_I2C_MEM_BLOCK_SIZE

\* C23's case: a successful write of two blocks, the second block of the
\* buffer sent second and differing from the first.
C23_Witness ==
    /\ op \in BlockWriteOps /\ rslt \in OkStatus /\ arg.cnt = 2
    /\ Len(Transfers) = 2
    /\ Transfers[2].a = arg.addr + 1
    /\ Transfers[2].pkt = BlockOf(arg.data, 1)
    /\ Transfers[2].pkt # Transfers[1].pkt

InvalidArgument == {"NT3H_E_INVALID_ARGS", "NFC_INVALID_ARGS"}

\* An operation asked for nothing: a byte operation of length 0, a block
\* operation of count 0, on a valid (and ready) handle and buffer.
AskedNothing ==
    /\ arg.dev = ValidDev /\ arg.buf
    /\ arg.state \in {"none", "NFC_STATE_READY"}
    /\ \/ op \in ByteOps /\ arg.len = 0
       \/ op \in BlockOps /\ arg.cnt = 0

\* C10: byte operations of length 0 and block operations of count 0 return
\* InvalidArgument and issue no transport call.
C10_EmptyRequestRejected ==
    AskedNothing => rslt \in InvalidArgument /\ calls = << >>

\* C10's failing case: a block read of count 0 on a ready handle returned
\* the generic error of the state-machine draft.
C10_Witness ==
    /\ AskedNothing /\ op = "NFC_ReadBlocks"
    /\ rslt = "NFC_ERROR" /\ calls = << >>

(***************************************************************************)
(* Actions: register accessor.  R: register indices; MV: (mask, value)     *)
(* pairs; X: the bytes the device answers a register read with.            *)
(***************************************************************************)
ReadRegister(R, X, D, B, F) ==
    \E r \in R, x \in X, dev \in D, b \in B, f \in F, ferr \in NT3H_Failures :
        Do("nt3h_read_register",
           [NoArgs EXCEPT !.dev = dev, !.reg = r, !.rxb = x, !.buf = b,
                          !.failAt = f],
           nt3h_read_register(Env(mem, f, ferr, x), dev, r, b))

WriteRegister(R, MV, D, F) ==
    \E r \in R, mv \in MV, dev \in D, f \in F, ferr \in NT3H_Failures :
        Do("nt3h_write_register",
           [NoArgs EXCEPT !.dev = dev, !.reg = r, !.mask = mv[1],
                          !.val = mv[2], !.failAt = f],
           nt3h_write_register(Env(mem, f, ferr, 0), dev, r, mv[1], mv[2]))

ReadConfig(R, D, B, F, U) ==
    \E r \in R, dev \in D, b \in B, f \in F, ferr \in NT3H_Failures, ub \in U :
        Do("nt3h_read_config",
           [NoArgs EXCEPT !.dev = dev, !.addr = NT3H_MEM_BLOCK_CONFIG_1K,
                          !.reg = r, !.buf = b, !.failAt = f, !.ub = ub],
           nt3h_read_config(Env(mem, f, ferr, 0), dev, r, b, ub))

WriteConfig(R, MV, D, F, U) ==
    \E r \in R, mv \in MV, dev \in D, f \in F, ferr \in NT3H_Failures,
       ub \in U :
        Do("nt3h_write_config",
           [NoArgs EXCEPT !.dev = dev, !.addr = NT3H_MEM_BLOCK_CONFIG_1K,
                          !.reg = r, !.mask = mv[1], !.val = mv[2],
                          !.failAt = f, !.ub = ub],
           nt3h_write_config(Env(mem, f, ferr, 0), dev, r, mv[1], mv[2], ub))

IsFieldPresent(X, D, B, F) ==
    \E x \in X, dev \in D, b \in B, f \in F, ferr \in NT3H_Failures :
        Do("nt3h_is_field_present",
           [NoArgs EXCEPT !.dev = dev, !.reg = 6, !.rxb = x, !.buf = b,
                          !.failAt = f],
           nt3h_is_field_present(Env(mem, f, ferr, x), dev, b))

NfcReadRegister(R, X, D, B, F, U) ==
    \E r \in R, x \in X, dev \in D, b \in B, f \in F, ferr \in HAL_Failures,
       ub \in U :
        DoH("NFC_ReadRegister",
            [NoArgs EXCEPT !.dev = dev, !.addr = NT3H_MEM_BLOCK_SESSION_REGS_1K,
                           !.reg = r, !.rxb = x, !.buf = b, !.failAt = f,
                           !.ub = ub],
            NFC_ReadRegister(Env(mem, f, ferr, x), TheHandle(dev.valid),
                             NT3H_MEM_BLOCK_SESSION_REGS_1K, r, b, ub))

NfcWriteRegister(R, MV, D, F, U) ==
    \E r \in R, mv \in MV, dev \in D, f \in F, ferr \in HAL_Failures, ub \in U :
        DoH("NFC_WriteRegister",
            [NoArgs EXCEPT !.dev = dev, !.addr = NT3H_MEM_BLOCK_SESSION_REGS_1K,
                           !.reg = r, !.mask = mv[1], !.val = mv[2],
                           !.failAt = f, !.ub = ub],
            NFC_WriteRegister(Env(mem, f, ferr, 0), TheHandle(dev.valid),
                              NT3H_MEM_BLOCK_SESSION_REGS_1K, r, mv[1], mv[2],
                              ub))

NfcReadConfig(R, D, B, F, U) ==
    \E r \in R, dev \in D, b \in B, f \in F, ferr \in HAL_Failures, ub \in U :
        DoH("NFC_ReadConfig",
            [NoArgs EXCEPT !.dev = dev, !.addr = NT3H_MEM_BLOCK_CONFIG_1K,
                           !.reg = r, !.buf = b, !.failAt = f, !.ub = ub],
            NFC_ReadConfig(Env(mem, f, ferr, 0), TheHandle(dev.valid),
                           NT3H_MEM_BLOCK_CONFIG_1K, r, b, ub))

NfcWriteConfig(R, MV, D, F, U) ==
    \E r \in R, mv \in MV, dev \in D, f \in F, ferr \in HAL_Failures, ub \in U :
        DoH("NFC_WriteConfig",
            [NoArgs EXCEPT !.dev = dev, !.addr = NT3H_MEM_BLOCK_CONFIG_1K,
                           !.reg = r, !.mask = mv[1], !.val = mv[2],
                           !.failAt = f, !.ub = ub],
            NFC_WriteConfig(Env(mem, f, ferr, 0), TheHandle(dev.valid),
                            NT3H_MEM_BLOCK_CONFIG_1K, r, mv[1], mv[2], ub))

NfcReadFieldPresent(X, D, B, F, U) ==
    \E x \in X, dev \in D, b \in B, f \in F, ferr \in HAL_Failures, ub \in U :
        DoH("NFC_ReadFieldPresent",
            [NoArgs EXCEPT !.dev = dev, !.addr = NT3H_MEM_BLOCK_SESSION_REGS_1K,
                           !.reg = 6, !.rxb = x, !.buf = b, !.failAt = f,
                           !.ub = ub],
            NFC_ReadFieldPresent(Env(mem, f, ferr, x), TheHandle(dev.valid),
                                 b, ub))

(***************************************************************************)
(* Specification of the configuration registers: both drafts, valid        *)
(* handles, a transport that never fails.                                  *)
(***************************************************************************)
ConfigRegs == 0..15

\* (mask, value): replace the byte by 0xAB; keep the high nibble and set
\* the low one; keep the low nibble and set bits of the high one.
MaskValues == { <<0, 171>>, <<240, 15>>, <<15, 160>> }

InitConfig == InitWith(MemWithCC(DefaultCC), ReadyHandle(DefaultCC))

NextConfig ==
    \/ WriteConfig(ConfigRegs, MaskValues, {ValidDev}, {0}, {NoUB})
    \/ NfcWriteConfig(ConfigRegs, MaskValues, {ValidDev}, {0}, {NoUB})

SpecConfig == InitConfig /\ [][NextConfig]_vars

(***************************************************************************)
(* Claims on the configuration registers                                   *)
(***************************************************************************)
WriteConfigOps == {"nt3h_write_config", "NFC_WriteConfig"}

\* The configuration block before and after the last operation.
ConfigBefore == MemRead(memPrev, 58)
ConfigAfter == MemRead(mem, 58)

\* C5: a successful write_config at index 0..15 stores
\* (old AND mask) OR value at that index of the configuration block and
\* writes the other 15 bytes back unchanged.
C5_ConfigMaskedWrite ==
    (op \in WriteConfigOps /\ rslt \in OkStatus /\ arg.reg \in 0..15)
        => /\ ConfigAfter[arg.reg + 1]
                  = BitOr(BitAnd(ConfigBefore[arg.reg + 1], arg.mask, 8),
                          arg.val, 8)
           /\ \A i \in 1..16 :
                  i # arg.reg + 1 => ConfigAfter[i] = ConfigBefore[i]
           /\ \A i \in CallsOf("write") :
                  calls[i].a = 58 /\ calls[i].pkt = ConfigAfter

\* C5's case: a register holding 0xAB was written with mask 0xF0 and value
\* 0x0F and holds 0xAF.
C5_Witness ==
    /\ op \in WriteConfigOps /\ rslt \in OkStatus
    /\ arg.reg = 15 /\ arg.mask = 240 /\ arg.val = 15
    /\ ConfigBefore[16] = 171
    /\ ConfigAfter[16] = 175
    /\ CallsOf("write") # {}

(***************************************************************************)
(* Actions: capability container and device-level operations.  CC: the     *)
(* containers a caller writes; I: the device addresses a caller programs.  *)
(***************************************************************************)
Nt3hInit(D, F) ==
    \E dev \in D, f \in F, ferr \in NT3H_Failures :
        Do("nt3h_init", [NoArgs EXCEPT !.dev = dev, !.failAt = f],
           nt3h_init(Env(mem, f, ferr, 0), dev))

Deinit(D) ==
    \E dev \in D :
        Do("nt3h_deinit", [NoArgs EXCEPT !.dev = dev],
           nt3h_deinit(Env(mem, 0, "NT3H_OK", 0), dev))

Check(D, F) ==
    \E dev \in D, f \in F, ferr \in NT3H_Failures :
        Do("nt3h_check", [NoArgs EXCEPT !.dev = dev, !.failAt = f],
           nt3h_check(Env(mem, f, ferr, 0), dev))

ReadCapabilityCont(D, B, F, U) ==
    \E dev \in D, b \in B, f \in F, ferr \in NT3H_Failures, ub \in U :
        Do("nt3h_read_capability_cont",
           [NoArgs EXCEPT !.dev = dev, !.buf = b, !.failAt = f, !.ub = ub],
           nt3h_read_capability_cont(Env(mem, f, ferr, 0), dev, b, ub))

WriteCapabilityCont(CC, D, B, F, U) ==
    \E cc \in CC, dev \in D, b \in B, f \in F, ferr \in NT3H_Failures,
       ub \in U :
        Do("nt3h_write_capability_cont",
           [NoArgs EXCEPT !.dev = dev, !.buf = b, !.data = cc, !.failAt = f,
                          !.ub = ub],
           nt3h_write_capability_cont(Env(mem, f, ferr, 0), dev, b, cc, ub))

ChangeI2cAddress(I, D, F) ==
    \E a \in I, dev \in D, f \in F, ferr \in NT3H_Failures :
        Do("nt3h_change_i2c_address",
           [NoArgs EXCEPT !.dev = dev, !.val = a, !.failAt = f],
           nt3h_change_i2c_address(Env(mem, f, ferr, 0), dev, a))

NfcInit(D, F) ==
    \E dev \in D, f \in F, ferr \in HAL_Failures :
        DoH("NFC_Init", [NoArgs EXCEPT !.dev = dev, !.failAt = f],
            NFC_Init(Env(mem, f, ferr, 0), TheHandle(dev.valid)))

NfcDeInit(D) ==
    \E dev \in D :
        DoH("NFC_DeInit", [NoArgs EXCEPT !.dev = dev],
            NFC_DeInit(Env(mem, 0, "HAL_OK", 0), TheHandle(dev.valid)))

NfcReadCC(D, F, U) ==
    \E dev \in D, f \in F, ferr \in HAL_Failures, ub \in U :
        DoH("NFC_ReadCC",
            [NoArgs EXCEPT !.dev = dev, !.failAt = f, !.ub = ub],
            NFC_ReadCC(Env(mem, f, ferr, 0), TheHandle(dev.valid), ub))

NfcWriteCC(CC, D, B, F, U) ==
    \E cc \in CC, dev \in D, b \in B, f \in F, ferr \in HAL_Failures, ub \in U :
        DoH("NFC_WriteCC",
            [NoArgs EXCEPT !.dev = dev, !.buf = b, !.data = cc, !.failAt = f,
                           !.ub = ub],
            NFC_WriteCC(Env(mem, f, ferr, 0), TheHandle(dev.valid), b, cc,
                        ub))

NfcWriteAddr(I, D, F, U) ==
    \E a \in I, dev \in D, f \in F, ferr \in HAL_Failures, ub \in U :
        DoH("NFC_WriteAddr",
            [NoArgs EXCEPT !.dev = dev, !.val = a, !.failAt = f, !.ub = ub],
            NFC_WriteAddr(Env(mem, f, ferr, 0), TheHandle(dev.valid), a, ub))

(***************************************************************************)
(* Specification of initialization: both drafts, valid handles, a          *)
(* transport that may fail at any one call.                                *)
(***************************************************************************)
\* Containers: blank, the default one, and two with a single non-zero byte.
Containers == { BlankCC, DefaultCC, <<0, 0, 0, 1>>, <<1, 0, 0, 0>> }

I2cAddrs == { 4, 170 }

\* The fallible transport call that fails (0: none).
FailPoints == 0..4

InitInit ==
    \E cc \in Containers : InitWith(MemWithCC(cc), FreshHandle)

NextInit ==
    \/ Nt3hInit({ValidDev}, FailPoints)
    \/ NfcInit({ValidDev}, FailPoints)
    \/ WriteCapabilityCont(Containers, {ValidDev}, {TRUE}, {0}, {NoUB})
    \/ NfcWriteCC(Containers, {ValidDev}, {TRUE}, {0}, {NoUB})
    \/ ChangeI2cAddress(I2cAddrs, {ValidDev}, {0})
    \/ NfcDeInit({ValidDev})

SpecInit == InitInit /\ [][NextInit]_vars

(***************************************************************************)
(* Claims on initialization                                                *)
(***************************************************************************)
InitOps == {"nt3h_init", "NFC_Init"}

\* Block 0, and the descriptor in its bytes 12..15, before and after the
\* last operation.
Block0Before == MemRead(memPrev, 0)
Block0After == MemRead(mem, 0)
DescriptorBefore == SubSeq(Block0Before, 13, 16)
DescriptorAfter == SubSeq(Block0After, 13, 16)

\* C6: on a blank descriptor and a transport that never fails, init writes
\* block 0 exactly once, leaves {0xE1, 0x10, 0x6D, 0x00} in bytes 12..15 and
\* bytes 0..11 as they were.
C6_BlankDescriptorSeeded ==
    (/\ op \in InitOps /\ arg.dev.valid /\ arg.failAt = 0
     /\ DescriptorBefore = <<0, 0, 0, 0>>)
        => /\ rslt \in OkStatus
           /\ Cardinality(CallsOf("write")) = 1
           /\ \A i \in CallsOf("write") : calls[i].a = 0
           /\ DescriptorAfter = <<225, 16, 109, 0>>
           /\ SubSeq(Block0After, 1, 12) = SubSeq(Block0Before, 1, 12)
           /\ \A a \in DOMAIN mem \cup DOMAIN memPrev :
                  a # 0 => MemRead(mem, a) = MemRead(memPrev, a)

\* C6's case: init has seeded a blank device whose address byte had been
\* reprogrammed.
C6_Witness ==
    /\ op \in InitOps /\ rslt \in OkStatus /\ arg.failAt = 0
    /\ prev.op = "nt3h_change_i2c_address" /\ prev.rslt \in OkStatus
    /\ DescriptorBefore = <<0, 0, 0, 0>>
    /\ DescriptorAfter = <<225, 16, 109, 0>>
    /\ Block0After[1] = prev.arg.val
    /\ Cardinality(CallsOf("write")) = 1

\* C7: on a descriptor with a non-zero byte init issues no block write: its
\* transport calls are reads (and the ready probe of the state-machine
\* draft) and device memory is unchanged.
C7_ProgrammedDescriptorKept ==
    (/\ op \in InitOps /\ arg.dev.valid
     /\ DescriptorBefore # <<0, 0, 0, 0>>)
        => /\ \A i \in 1..Len(calls) : calls[i].k \in {"read", "probe"}
           /\ mem = memPrev

\* C7's case: init has run to success on a descriptor whose only non-zero
\* byte is the last one.
C7_Witness ==
    /\ op \in InitOps /\ rslt \in OkStatus
    /\ DescriptorBefore = <<0, 0, 0, 1>>
    /\ CallsOf("read") # {} /\ CallsOf("write") = {}
    /\ mem = memPrev

(***************************************************************************)
(* Specification of argument validation: every public operation of both    *)
(* drafts, with null and valid handles, function references and buffers,   *)
(* a transport that never fails.                                           *)
(***************************************************************************)
\* The liveness check of init at the transport: a block read of block 0 in
\* the stateless draft, the ready probe in the state-machine draft.
IsLivenessCall(c) ==
    IF op = "NFC_Init" THEN c.k = "probe" ELSE c.k = "read" /\ c.a = 0

\* C16: init issues the liveness check first, then the descriptor read,
\* then, only for a blank descriptor, the descriptor write; after a failed
\* liveness check it issues no descriptor read, after a failed descriptor
\* read no write, and it returns a failure in both cases.
C16_InitOrder ==
    (op \in InitOps /\ arg.dev.valid) =>
        /\ Len(calls) >= 1 /\ IsLivenessCall(calls[1])
        /\ ~calls[1].ok => Len(calls) = 1 /\ rslt \notin OkStatus
        /\ calls[1].ok =>
               /\ Len(calls) >= 2
               /\ calls[2].k = "read" /\ calls[2].a = 0
               /\ ~calls[2].ok => Len(calls) = 2 /\ rslt \notin OkStatus
        /\ CallsOf("write") # {} =>
               /\ DescriptorBefore = <<0, 0, 0, 0>>
               /\ calls[1].ok /\ calls[2].ok
               /\ \A i \in CallsOf("write") : i > 2 /\ calls[i].a = 0

\* C16's case: the descriptor read of init failed after a successful
\* liveness check on a blank device, and nothing was written.
C16_Witness ==
    /\ op = "nt3h_init" /\ DescriptorBefore = <<0, 0, 0, 0>>
    /\ Len(calls) = 2 /\ calls[1].ok /\ ~calls[2].ok
    /\ rslt \notin OkStatus /\ mem = memPrev

Handles ==
    { ValidDev, Dev(FALSE, TRUE, TRUE, TRUE), Dev(TRUE, FALSE, TRUE, TRUE),
      Dev(TRUE, TRUE, FALSE, TRUE) }

\* Handles of the state-machine draft: valid and null.
NfcHandles == { ValidDev, Dev(FALSE, TRUE, TRUE, TRUE) }

\* The build's choices at a null access: it carries on and finds State
\* equal to RESET, it faults, it carries on and finds State equal to READY.
Builds == { NoUB, Faulting, UB(FALSE, <<0>>, "NFC_STATE_READY") }

OneSpan == { <<1, 8, 16>> }

InitNull == InitWith(MemWithCC(DefaultCC), ReadyHandle(DefaultCC))

NextNull ==
    \/ Nt3hInit(Handles, {0})
    \/ Deinit(Handles)
    \/ Check(Handles, {0})
    \/ ReadBytes(OneSpan, Handles, BOOLEAN, {0}, {NoUB})
    \/ WriteBytes(OneSpan, Handles, BOOLEAN, {0}, {NoUB})
    \/ EraseBytes(OneSpan, Handles, {0}, {NoUB})
    \/ ReadRegister({6}, {1}, Handles, BOOLEAN, {0})
    \/ WriteRegister({6}, {<<240, 15>>}, Handles, {0})
    \/ ReadConfig({0}, Handles, BOOLEAN, {0}, {NoUB, Faulting})
    \/ WriteConfig({0}, {<<240, 15>>}, Handles, {0}, {NoUB})
    \/ IsFieldPresent({1}, Handles, BOOLEAN, {0})
    \/ ReadCapabilityCont(Handles, BOOLEAN, {0}, {NoUB, Faulting})
    \/ WriteCapabilityCont({DefaultCC}, Handles, BOOLEAN, {0},
                           {NoUB, Faulting})
    \/ ChangeI2cAddress({4}, Handles, {0})
    \/ NfcInit(NfcHandles, {0})
    \/ NfcDeInit(NfcHandles)
    \/ ReadMemory(OneSpan, NfcHandles, BOOLEAN, {0}, Builds)
    \/ WriteMemory(OneSpan, NfcHandles, BOOLEAN, {0}, Builds)
    \/ EraseMemory(OneSpan, NfcHandles, {0}, Builds)
    \/ NfcReadRegister({6}, {1}, NfcHandles, BOOLEAN, {0}, Builds)
    \/ NfcWriteRegister({6}, {<<240, 15>>}, NfcHandles, {0}, Builds)
    \/ NfcReadConfig({0}, NfcHandles, BOOLEAN, {0}, Builds)
    \/ NfcWriteConfig({0}, {<<240, 15>>}, NfcHandles, {0}, Builds)
    \/ NfcReadFieldPresent({1}, NfcHandles, BOOLEAN, {0}, Builds)
    \/ NfcReadCC(NfcHandles, {0}, Builds)
    \/ NfcWriteCC({DefaultCC}, NfcHandles, BOOLEAN, {0}, Builds)
    \/ NfcWriteAddr({4}, NfcHandles, {0}, Builds)

SpecNull == InitNull /\ [][NextNull]_vars

(***************************************************************************)
(* Claims on argument validation                                           *)
(***************************************************************************)
\* The operations that take a caller buffer or output pointer.
BufferOps ==
    { "nt3h_read_bytes", "nt3h_write_bytes", "nt3h_read_register",
      "nt3h_read_config", "nt3h_read_capability_cont",
      "nt3h_write_capability_cont", "nt3h_is_field_present",
      "NFC_ReadMemory", "NFC_WriteMemory", "NFC_ReadRegister",
      "NFC_ReadConfig", "NFC_WriteCC", "NFC_ReadFieldPresent" }

\* The statuses a draft has for a null reference (the state-machine draft
\* has its generic error only).
NullReference == {"NT3H_E_NULL_PTR", "NFC_ERROR"}

\* The last operation was called with a null handle or with a handle whose
\* read or write reference is null, and with valid other arguments.
CalledOnNullHandle ==
    /\ op # "none"
    /\ ~arg.dev.valid \/ ~arg.dev.read \/ ~arg.dev.write
    /\ arg.buf

\* C8: every public operation called with a null handle, or a handle with
\* a null read or write reference, returns NullReference and issues no
\* transport call.
C8_NullHandleRejected ==
    CalledOnNullHandle => rslt \in NullReference /\ calls = << >>

\* C8's failing case: a register read of the state-machine draft through a
\* null handle did not return (the access faulted), or went on to the bus.
C8_Witness ==
    /\ CalledOnNullHandle /\ op = "NFC_ReadRegister"
    /\ rslt = "FAULT" \/ calls # << >>

\* The last operation was called on a valid (and ready) handle with a null
\* buffer or output pointer.
CalledWithNullBuffer ==
    /\ op \in BufferOps
    /\ arg.dev = ValidDev
    /\ arg.state \in {"none", "NFC_STATE_READY"}
    /\ ~arg.buf

\* C9: an operation called with a null buffer or output pointer returns
\* NullReference or InvalidArgument and issues no transport call.
C9_NullBufferRejected ==
    CalledWithNullBuffer
        => rslt \in NullReference \cup InvalidArgument /\ calls = << >>

\* C9's failing case: read_config with a null output pointer read the
\* configuration block before storing through the pointer.
C9_Witness ==
    /\ CalledWithNullBuffer /\ op = "nt3h_read_config"
    /\ CallsOf("read") # {}

DeinitOps == {"nt3h_deinit", "NFC_DeInit"}

\* C20: deinit issues no transport call and changes no device memory for
\* any handle; with a valid handle it returns success, with a null handle
\* a failure.
C20_DeinitFrame ==
    op \in DeinitOps =>
        /\ calls = << >>
        /\ mem = memPrev
        /\ arg.dev = ValidDev => rslt \in OkStatus
        /\ ~arg.dev.valid => rslt \notin OkStatus

\* C20's case: deinit of a valid handle after a write put data on the
\* device.
C20_Witness ==
    /\ op \in DeinitOps /\ arg.dev = ValidDev /\ rslt \in OkStatus
    /\ prev.op \in WriteOps /\ prev.rslt \in OkStatus
    /\ calls = << >> /\ mem = memPrev /\ mem # MemWithCC(DefaultCC)

(***************************************************************************)
(* Specification of the session registers: the register accessor and the   *)
(* field-present query of both drafts, valid handles and buffers, a        *)
(* transport that may fail at the transmit or at the receive.              *)
(***************************************************************************)
SessionRegs == { 0, 6 }

\* The bytes the device answers with: bit 0 clear and set, under every
\* setting of the other bits that matters to a mask.
RegBytes == { 0, 1, 2, 3, 254, 255 }

RegFailPoints == 0..2

\* (mask, value) pairs written to a session register.
RegMaskValues == { <<240, 15>>, <<15, 160>> }

InitRegs == InitWith(MemWithCC(DefaultCC), ReadyHandle(DefaultCC))

NextRegs ==
    \/ ReadRegister(SessionRegs, {0, 255}, {ValidDev}, {TRUE}, RegFailPoints)
    \/ WriteRegister(SessionRegs, RegMaskValues, {ValidDev}, {0, 1})
    \/ IsFieldPresent(RegBytes, {ValidDev}, {TRUE}, RegFailPoints)
    \/ NfcReadRegister(SessionRegs, {0, 255}, {ValidDev}, {TRUE},
                       RegFailPoints, {NoUB})
    \/ NfcWriteRegister(SessionRegs, RegMaskValues, {ValidDev}, {0, 1},
                        {NoUB})
    \/ NfcReadFieldPresent(RegBytes, {ValidDev}, {TRUE}, RegFailPoints,
                           {NoUB})

SpecRegs == InitRegs /\ [][NextRegs]_vars

(***************************************************************************)
(* Claims on the session registers                                         *)
(***************************************************************************)
RegReadOps == {"nt3h_read_register", "NFC_ReadRegister"}
RegWriteOps == {"nt3h_write_register", "NFC_WriteRegister"}
FieldOps == {"nt3h_is_field_present", "NFC_ReadFieldPresent"}

\* C14: read_register issues one transmit of {0xFE, register} and then, if
\* the transmit succeeded, one receive, and nothing else; write_register
\* issues one transmit of {0xFE, register, mask, value} and nothing else.
C14_RegisterWirePattern ==
    /\ op \in RegReadOps =>
           /\ Len(calls) >= 1
           /\ calls[1].k = "tx"
           /\ calls[1].pkt = <<254, arg.reg>>
           /\ IF calls[1].ok
              THEN Len(calls) = 2 /\ calls[2].k = "rx"
              ELSE Len(calls) = 1
    /\ op \in RegWriteOps =>
           /\ Len(calls) = 1
           /\ calls[1].k = "tx"
           /\ calls[1].pkt = <<254, arg.reg, arg.mask, arg.val>>

\* C14's case: a read of session register 6 went out as one transmit and
\* one receive.
C14_Witness ==
    /\ op = "nt3h_read_register" /\ arg.reg = 6 /\ rslt = "NT3H_OK"
    /\ Len(calls) = 2
    /\ calls[1].pkt = <<254, 6>> /\ calls[2].k = "rx"

\* C19: field_present reads session register 6 through the register read;
\* on success its result is bit 0 of the byte received, whatever the other
\* bits; on failure it returns the failure and leaves the caller's output
\* as it was.
C19_FieldPresentBitZero ==
    op \in FieldOps =>
        /\ Len(calls) >= 1 /\ calls[1].pkt = <<254, 6>>
        /\ \A i \in 1..Len(calls) : calls[i].k \in {"tx", "rx"}
        /\ (FailedCalls = {}) =>
               rslt \in OkStatus /\ out = <<arg.rxb % 2>>
        /\ (FailedCalls # {}) =>
               /\ rslt \notin OkStatus
               /\ out = CallerBuf(1)
               /\ ReturnsTransportStatus =>
                      \A i \in FailedCalls : rslt = calls[i].ret

\* C19's case: the register held 0xFE (bit 0 clear, every other bit set)
\* and field_present answered false.
C19_Witness ==
    /\ op = "nt3h_is_field_present" /\ rslt = "NT3H_OK"
    /\ arg.rxb = 254 /\ out = <<0>>

(***************************************************************************)
(* Earlier drafts of nt3h.c kept in the repository.  The draft written     *)
(* with struct nt3h_dev (its operators carry the prefix struct_) and the   *)
(* draft written with goto error (prefix goto_) share the block transfer   *)
(* engine and the null check of the stateless draft; nt3h_check is defined *)
(* in the stateless draft only.                                            *)
(***************************************************************************)
\* IS_CC_EMPTY(cc): the test the commented-out lines under its use spell
\* out, on the container nt3h_read_cc has just read.
IS_CC_EMPTY(cc) == cc[1] = 0 /\ cc[2] = 0 /\ cc[3] = 0 /\ cc[4] = 0

\* nt3h_read_cc: out is the container copied into dev->CC.
struct_nt3h_read_cc(e, dev) ==
    IF null_ptr_check(dev) # "NT3H_OK" THEN Ret(e, null_ptr_check(dev), << >>)
    ELSE LET r == read_blocks(e, dev, 0, TRUE, 1)
         IN  IF r.rslt # "NT3H_OK" THEN Ret(r.e, r.rslt, << >>)
             ELSE Ret(r.e, r.rslt, SubSeq(r.out, 13, 16))

struct_nt3h_write_cc(e, dev, ccbytes) ==
    IF null_ptr_check(dev) # "NT3H_OK" THEN Ret(e, null_ptr_check(dev), << >>)
    ELSE LET r == read_blocks(e, dev, 0, TRUE, 1)
         IN  IF r.rslt # "NT3H_OK" THEN Ret(r.e, r.rslt, << >>)
             ELSE write_blocks(r.e, dev, 0, TRUE, Splice(r.out, 12, ccbytes),
                               1)

\* nt3h_init of the struct draft.  The status of nt3h_write_cc is tested but
\* not assigned: the value returned after it is the rslt nt3h_read_cc left.
struct_nt3h_init(e, dev) ==
    IF null_ptr_check(dev) # "NT3H_OK" THEN Ret(e, null_ptr_check(dev), << >>)
    ELSE LET c == nt3h_check(e, dev)
             r == struct_nt3h_read_cc(c.e, dev)
             w == struct_nt3h_write_cc(r.e, dev, DefaultCC)
         IN  IF c.rslt # "NT3H_OK" THEN Ret(c.e, c.rslt, << >>)
             ELSE IF r.rslt # "NT3H_OK" THEN Ret(r.e, r.rslt, << >>)
             ELSE IF IS_CC_EMPTY(r.out) THEN Ret(w.e, r.rslt, << >>)
             ELSE Ret(r.e, r.rslt, << >>)

\* nt3h_write_bytes of the goto draft.  Every path ends at the label error,
\* whose statement is return NFC_OK.  The block count is a uint16_t.
goto_nt3h_write_bytes(e, dev, addr, offset, data, bytes, len, ub) ==
    IF null_ptr_check(dev) # "NT3H_OK" THEN Ret(e, "NFC_OK", << >>)
    ELSE IF ~data \/ len = 0 THEN Ret(e, "NFC_OK", << >>)
    ELSE LET a == NormAddr(addr, offset)
             off == NormOffset(offset)
             blocks_needed == calculate_blocks_needed(off, len)
             r == read_blocks(e, dev, a, TRUE, blocks_needed)
             w == write_blocks(r.e, dev, a, TRUE,
                               Splice(r.out, off, SubSeq(bytes, 1, len)),
                               blocks_needed)
         IN  IF r.rslt # "NT3H_OK" THEN Ret(r.e, "NFC_OK", << >>)
             ELSE IF Overruns(r.out, off, len) /\ ub.fault
             THEN Ret(r.e, "FAULT", << >>)
             ELSE Ret(w.e, "NFC_OK", << >>)

StructInit(D, F) ==
    \E dev \in D, f \in F, ferr \in NT3H_Failures :
        Do("struct_nt3h_init", [NoArgs EXCEPT !.dev = dev, !.failAt = f],
           struct_nt3h_init(Env(mem, f, ferr, 0), dev))

GotoWriteBytes(S, D, B, F, U) ==
    \E s \in S, dev \in D, b \in B, f \in F, ferr \in NT3H_Failures, ub \in U :
        Do("goto_nt3h_write_bytes",
           [NoArgs EXCEPT !.dev = dev, !.addr = s[1], !.offset = s[2],
                          !.len = s[3], !.buf = b, !.failAt = f, !.ub = ub,
                          !.data = Pattern(s[1] + s[2], s[3])],
           goto_nt3h_write_bytes(Env(mem, f, ferr, 0), dev, s[1], s[2], b,
                                 Pattern(s[1] + s[2], s[3]), s[3], ub))

(***************************************************************************)
(* Specification of transport failures: every public operation of the      *)
(* drafts, valid handles and buffers, a transport that may fail at any one *)
(* call with either of its failure statuses.                               *)
(***************************************************************************)
\* Spans of one, two and four blocks.
FailSpans == { <<1, 5, 11>>, <<1, 8, 16>>, <<0, 19, 40>> }

InitFail ==
    \E cc \in {BlankCC, DefaultCC} :
        \E h \in {FreshHandle, ReadyHandle(cc)} : InitWith(MemWithCC(cc), h)

NextFail ==
    \/ ReadBytes(FailSpans, {ValidDev}, {TRUE}, FailPoints, {NoUB})
    \/ WriteBytes(FailSpans, {ValidDev}, {TRUE}, FailPoints, {NoUB})
    \/ EraseBytes(FailSpans, {ValidDev}, FailPoints, {NoUB})
    \/ GotoWriteBytes(FailSpans, {ValidDev}, {TRUE}, FailPoints, {NoUB})
    \/ ReadRegister({6}, {1}, {ValidDev}, {TRUE}, FailPoints)
    \/ WriteRegister({6}, {<<240, 15>>}, {ValidDev}, FailPoints)
    \/ ReadConfig({2}, {ValidDev}, {TRUE}, FailPoints, {NoUB})
    \/ WriteConfig({2}, {<<240, 15>>}, {ValidDev}, FailPoints, {NoUB})
    \/ IsFieldPresent({1}, {ValidDev}, {TRUE}, FailPoints)
    \/ ReadCapabilityCont({ValidDev}, {TRUE}, FailPoints, {NoUB})
    \/ WriteCapabilityCont({DefaultCC}, {ValidDev}, {TRUE}, FailPoints, {NoUB})
    \/ ChangeI2cAddress({4}, {ValidDev}, FailPoints)
    \/ Check({ValidDev}, FailPoints)
    \/ Nt3hInit({ValidDev}, FailPoints)
    \/ StructInit({ValidDev}, FailPoints)
    \/ ReadMemory(FailSpans, {ValidDev}, {TRUE}, FailPoints, {NoUB})
    \/ WriteMemory(FailSpans, {ValidDev}, {TRUE}, FailPoints, {NoUB})
    \/ EraseMemory(FailSpans, {ValidDev}, FailPoints, {NoUB})
    \/ NfcReadRegister({6}, {1}, {ValidDev}, {TRUE}, FailPoints, {NoUB})
    \/ NfcWriteRegister({6}, {<<240, 15>>}, {ValidDev}, FailPoints, {NoUB})
    \/ NfcReadConfig({2}, {ValidDev}, {TRUE}, FailPoints, {NoUB})
    \/ NfcWriteConfig({2}, {<<240, 15>>}, {ValidDev}, FailPoints, {NoUB})
    \/ NfcReadFieldPresent({1}, {ValidDev}, {TRUE}, FailPoints, {NoUB})
    \/ NfcReadCC({ValidDev}, FailPoints, {NoUB})
    \/ NfcWriteCC({DefaultCC}, {ValidDev}, {TRUE}, FailPoints, {NoUB})
    \/ NfcWriteAddr({4}, {ValidDev}, FailPoints, {NoUB})
    \/ NfcInit({ValidDev}, FailPoints)

SpecFail == InitFail /\ [][NextFail]_vars

(***************************************************************************)
(* Claims on transport failures                                            *)
(***************************************************************************)
\* C11: whenever a transport call made for an operation fails, the
\* operation returns a non-success status, and that status is the one the
\* transport returned (the drafts on the HAL translate it to their own
\* type, so for them only non-success is required).
C11_NoSilentFailure ==
    \A i \in FailedCalls :
        /\ rslt \notin OkStatus
        /\ ReturnsTransportStatus => rslt = calls[i].ret

\* C11's failing case: write_bytes of the goto draft returned success after
\* its block write failed.
C11_Witness ==
    /\ op = "goto_nt3h_write_bytes" /\ rslt \in OkStatus
    /\ \E i \in FailedCalls : calls[i].k = "write"

\* C12: once a block transfer of an operation has failed, the operation
\* issues no further transport call, be it a read, a write or a delay: the
\* failed transfer is the last call of the operation.
C12_AbortOnFirstFailure ==
    \A i \in FailedCalls :
        calls[i].k \in {"read", "write"} => i = Len(calls)

\* C12's case: the first block write of a two-block write failed after both
\* blocks had been read, and no call followed it.
C12_Witness ==
    /\ op \in WriteOps /\ arg.len = 16 /\ arg.offset = 8
    /\ Len(calls) = 3
    /\ calls[1].ok /\ calls[2].ok
    /\ calls[3].k = "write" /\ ~calls[3].ok

\* C15: check issues exactly one block read, of block 0, and no write; if
\* the read fails, for whatever reason, check returns NT3H_E_DEV_NOT_FOUND;
\* it returns success only if the read succeeded.
C15_CheckReportsNotFound ==
    op = "nt3h_check" =>
        /\ Len(calls) = 1
        /\ calls[1].k = "read" /\ calls[1].a = 0
        /\ ~calls[1].ok => rslt = "NT3H_E_DEV_NOT_FOUND"
        /\ rslt \in OkStatus => calls[1].ok

\* C15's failing case: the transport failed the read with a status other
\* than device-not-found and check handed that status on.
C15_Witness ==
    /\ op = "nt3h_check" /\ Len(calls) = 1
    /\ ~calls[1].ok /\ calls[1].ret = "NT3H_E_INVALID_ARGS"
    /\ rslt = "NT3H_E_INVALID_ARGS"

\* The operations that read blocks, change them and write them back.
ReadModifyWriteOps ==
    WriteOps \cup EraseOps \cup WriteConfigOps
    \cup {"nt3h_write_capability_cont", "NFC_WriteCC",
          "nt3h_change_i2c_address", "NFC_WriteAddr"}

BusyHandle(cc) == Handle(TRUE, "NFC_STATE_BUSY", cc)

BusySpans == { <<1, 5, 11>>, <<0, 19, 40>> }

InitBusy == InitWith(MemWithCC(DefaultCC), BusyHandle(DefaultCC))

NextBusy ==
    \/ NfcReadBlocks({1, 56}, {1, 2}, {ValidDev}, {TRUE}, {0}, {NoUB})
    \/ NfcWriteBlocks({1, 56}, {1, 2}, {ValidDev}, {TRUE}, {0}, {NoUB})
    \/ ReadMemory(BusySpans, {ValidDev}, {TRUE}, {0}, {NoUB})
    \/ WriteMemory(BusySpans, {ValidDev}, {TRUE}, {0}, {NoUB})
    \/ EraseMemory(BusySpans, {ValidDev}, {0}, {NoUB})
    \/ NfcReadRegister({0, 6}, {1}, {ValidDev}, {TRUE}, {0}, {NoUB})
    \/ NfcWriteRegister({0, 6}, {<<240, 15>>}, {ValidDev}, {0}, {NoUB})
    \/ NfcReadConfig({2}, {ValidDev}, {TRUE}, {0}, {NoUB})
    \/ NfcWriteConfig({2}, {<<240, 15>>}, {ValidDev}, {0}, {NoUB})
    \/ NfcReadFieldPresent({1}, {ValidDev}, {TRUE}, {0}, {NoUB})
    \/ NfcReadCC({ValidDev}, {0}, {NoUB})
    \/ NfcWriteCC({DefaultCC}, {ValidDev}, {TRUE}, {0}, {NoUB})
    \/ NfcWriteAddr({4}, {ValidDev}, {0}, {NoUB})
    \/ NfcInit({ValidDev}, {0})
    \/ NfcDeInit({ValidDev})

SpecBusy == InitBusy /\ [][NextBusy]_vars

(***************************************************************************)
(* Claims on the handle state                                              *)
(***************************************************************************)
\* The block and register primitives of the state-machine draft.
NfcPrimitives ==
    {"NFC_ReadBlocks", "NFC_WriteBlocks", "NFC_ReadRegister",
     "NFC_WriteRegister"}

\* The operations composed of the primitives.
NfcComposed ==
    {"NFC_ReadMemory", "NFC_WriteMemory", "NFC_EraseMemory", "NFC_ReadConfig",
     "NFC_WriteConfig", "NFC_ReadCC", "NFC_WriteCC", "NFC_ReadFieldPresent",
     "NFC_WriteAddr"}

CalledWhileBusy == arg.dev.valid /\ arg.state = "NFC_STATE_BUSY"

\* C17: every public operation of the state-machine draft called while the
\* handle is Busy returns NFC_BUSY and issues no transport call, the
\* composed operations as well as the block and register primitives.
C17_BusyRejected ==
    (op \in NfcPrimitives \cup NfcComposed /\ CalledWhileBusy) =>
        rslt = "NFC_BUSY" /\ calls = << >>

\* C17's failing case: a composed operation called while Busy issued no
\* transport call and returned NFC_ERROR.
C17_Witness ==
    /\ op = "NFC_ReadMemory" /\ CalledWhileBusy
    /\ rslt = "NFC_ERROR" /\ calls = << >> /\ hnfc.State = "NFC_STATE_BUSY"

CalledWhileReady == arg.dev.valid /\ arg.state = "NFC_STATE_READY"

PartialSpans == { <<1, 8, 30>>, <<0, 19, 40>> }

PartialFailPoints == 0..7

InitPartial == InitWith(MemWithCC(DefaultCC), ReadyHandle(DefaultCC))

NextPartial ==
    \/ WriteBytes(PartialSpans, {ValidDev}, {TRUE}, PartialFailPoints, {NoUB})
    \/ EraseBytes(PartialSpans, {ValidDev}, PartialFailPoints, {NoUB})
    \/ WriteMemory(PartialSpans, {ValidDev}, {TRUE}, PartialFailPoints,
                   {NoUB})
    \/ EraseMemory(PartialSpans, {ValidDev}, PartialFailPoints, {NoUB})

SpecPartial == InitPartial /\ [][NextPartial]_vars

\* The run of blocks the last byte operation fetched: its first block, the
\* in-block offset, the number of blocks read.
RunBase == NormAddr(arg.addr, arg.offset)
RunOffset == NormOffset(arg.offset)
RunBlocks == Cardinality(CallsOf("read"))
RunAddr(j) == DevAddr((RunBase + j) % U16)

\* The bytes the last write or erase puts into the span.
NewBytes ==
    IF op \in EraseOps THEN Fill(NT3H_MEMORY_ERASE_VALUE, arg.len)
    ELSE arg.data

\* The run as it was on the device before the operation, and with the new
\* bytes spliced in.
RunBefore ==
    [i \in 1..(RunBlocks * NT3H_I2C_MEM_BLOCK_SIZE) |->
        MemRead(memPrev, RunAddr((i - 1) \div NT3H_I2C_MEM_BLOCK_SIZE))
            [((i - 1) % NT3H_I2C_MEM_BLOCK_SIZE) + 1]]
RunSpliced == Splice(RunBefore, RunOffset, NewBytes)
SplicedBlock(j) ==
    SubSeq(RunSpliced, j * NT3H_I2C_MEM_BLOCK_SIZE + 1,
           (j + 1) * NT3H_I2C_MEM_BLOCK_SIZE)

\* The number of block writes issued before call i.
WritesBefore(i) == Cardinality({w \in CallsOf("write") : w < i})

\* C22: when the k-th block write (k >= 1, from 0) of a write or erase of
\* several blocks fails, blocks 0..k-1 of the run hold the new spliced
\* content, blocks k+1.. hold their old content, and no compensating write
\* is issued: the failed write is the last call and no block is written
\* twice.
C22_PartialNotRolledBack ==
    \A f \in FailedCalls :
        (op \in WriteOps \cup EraseOps /\ calls[f].k = "write"
         /\ WritesBefore(f) >= 1) =>
            /\ f = Len(calls)
            /\ \A v, w \in CallsOf("write") : calls[v].a = calls[w].a => v = w
            /\ \A j \in 0..(WritesBefore(f) - 1) :
                   MemRead(mem, RunAddr(j)) = SplicedBlock(j)
            /\ \A j \in (WritesBefore(f) + 1)..(RunBlocks - 1) :
                   MemRead(mem, RunAddr(j)) = MemRead(memPrev, RunAddr(j))

\* C22's case: block write 1 of a run of three failed; block 0 of the run
\* is new, block 2 is as it was and differs from what was to be written.
C22_Witness ==
    /\ op \in WriteOps \cup EraseOps /\ RunBlocks = 3
    /\ \E f \in FailedCalls : calls[f].k = "write" /\ WritesBefore(f) = 1
    /\ MemRead(mem, RunAddr(0)) = SplicedBlock(0)
    /\ MemRead(mem, RunAddr(0)) # MemRead(memPrev, RunAddr(0))
    /\ MemRead(mem, RunAddr(2)) = MemRead(memPrev, RunAddr(2))
    /\ MemRead(mem, RunAddr(2)) # SplicedBlock(2)
    /\ rslt \notin OkStatus

\* C25: every successful write of a block outside the SRAM region is
\* followed at once by the 4 ms delay, before the next transport call and
\* before the operation returns, the last block of the run included; a
\* delay is invoked nowhere else: not first, not after a read, not after a
\* failed write.
C25_SettleDelayOrdering ==
    /\ \A i \in CallsOf("write") :
           (calls[i].ok /\ calls[i].a \notin SramRegion) =>
               DelayFollows(i) /\ calls[i + 1].a = 4
    /\ \A d \in CallsOf("delay") :
           d > 1 /\ calls[d - 1].k = "write" /\ calls[d - 1].ok

\* C25's case: the last block write of a run of three succeeded, after two
\* others, and the delay is the operation's last call.
C25_Witness ==
    /\ op \in WriteOps \cup EraseOps /\ rslt \in OkStatus /\ RunBlocks = 3
    /\ Cardinality(CallsOf("write")) = 3
    /\ Cardinality(CallsOf("delay")) = 3
    /\ calls[Len(calls)].k = "delay" /\ calls[Len(calls) - 1].k = "write"

\* Byte i (from 1) of device block b lies in the byte range the last
\* operation was asked for.
InRange(b, i) ==
    \E k \in 0..(arg.len - 1) :
        /\ DevAddr((arg.addr
                    + ((arg.offset + k) \div NT3H_I2C_MEM_BLOCK_SIZE)) % U16)
               = b
        /\ (arg.offset + k) % NT3H_I2C_MEM_BLOCK_SIZE = i - 1

\* The blocks that differ from the device's initial content before or
\* after the last operation: all others are unchanged.
LiveBlocks == DOMAIN mem \cup DOMAIN memPrev

\* C28: after a successful write or erase of (address, offset, length)
\* every device byte outside the byte range has the value it had before,
\* the other bytes of the first and the last covered block and of an extra
\* block fetched included.
C28_WriteEraseFrame ==
    (op \in WriteOps \cup EraseOps /\ rslt \in OkStatus) =>
        \A b \in LiveBlocks : \A i \in 1..NT3H_I2C_MEM_BLOCK_SIZE :
            InRange(b, i) \/ MemRead(mem, b)[i] = MemRead(memPrev, b)[i]

\* C28's case: a write of 40 bytes at offset 3 of block 1 fetched and wrote
\* back four blocks; the range changed, the bytes before it in block 1 and
\* the whole fourth block are as before.
C28_Witness ==
    /\ op \in WriteOps /\ rslt \in OkStatus
    /\ arg.addr = 0 /\ arg.offset = 19 /\ arg.len = 40
    /\ Cardinality(CallsOf("write")) = 4
    /\ \E w \in CallsOf("write") : calls[w].a = 4
    /\ MemRead(mem, 4) = MemRead(memPrev, 4)
    /\ \A i \in 1..3 : MemRead(mem, 1)[i] = MemRead(memPrev, 1)[i]
    /\ MemRead(mem, 1)[4] # MemRead(memPrev, 1)[4]

\* What write_bytes of the same draft does when called, in the state the
\* last operation was called in and with the same transport failure, with
\* the last operation's span and a buffer of zero bytes.
WriteOfZeros(ferr) ==
    IF op = "nt3h_erase_bytes"
    THEN nt3h_write_bytes(Env(memPrev, arg.failAt, ferr, 0), arg.dev, arg.addr,
                          arg.offset, TRUE, Fill(0, arg.len), arg.len, arg.ub)
    ELSE NFC_WriteMemory(Env(memPrev, arg.failAt, ferr, 0),
                         [hnfc EXCEPT !.State = arg.state], arg.addr,
                         arg.offset, TRUE, Fill(0, arg.len), arg.len, arg.ub)

\* C29: for every span of length above 0 and every transport failure,
\* erase_bytes issues the same sequence of transport calls, returns the
\* same status and leaves the same device memory as write_bytes called
\* with a buffer of length zero bytes.
C29_EraseRefinesWrite ==
    (op \in EraseOps /\ arg.len > 0) =>
        \E ferr \in NT3H_Failures \cup HAL_Failures :
            /\ WriteOfZeros(ferr).e.calls = calls
            /\ WriteOfZeros(ferr).rslt = rslt
            /\ WriteOfZeros(ferr).e.mem = mem

\* C29's case: an erase of three blocks whose second block write failed,
\* one block erased and the failure status returned.
C29_Witness ==
    /\ op = "nt3h_erase_bytes" /\ RunBlocks = 3
    /\ \E f \in FailedCalls : calls[f].k = "write" /\ WritesBefore(f) = 1
    /\ rslt \notin OkStatus /\ mem # memPrev
    /\ \E ferr \in NT3H_Failures :
           /\ WriteOfZeros(ferr).e.calls = calls
           /\ WriteOfZeros(ferr).rslt = rslt
           /\ WriteOfZeros(ferr).e.mem = mem

(***************************************************************************)
(* Specification of normalization: the byte operations of both drafts on   *)
(* spans of three bytes at the edges of the 16-bit address and offset.     *)
(***************************************************************************)
NormAddrs == { 0, 1, 255, 65535 }
NormOffsets == { 0, 3, 15, 16, 19, 35, 65535 }
\* Three bytes at each address and offset.
NormSpans == { <<a, o, 3>> : a \in NormAddrs, o \in NormOffsets }

InitNorm == InitWith(MemWithCC(DefaultCC), ReadyHandle(DefaultCC))

NextNorm ==
    \/ ReadBytes(NormSpans, {ValidDev}, {TRUE}, {0}, {NoUB})
    \/ WriteBytes(NormSpans, {ValidDev}, {TRUE}, {0}, {NoUB})
    \/ EraseBytes(NormSpans, {ValidDev}, {0}, {NoUB})
    \/ ReadMemory(NormSpans, {ValidDev}, {TRUE}, {0}, {NoUB})
    \/ WriteMemory(NormSpans, {ValidDev}, {TRUE}, {0}, {NoUB})
    \/ EraseMemory(NormSpans, {ValidDev}, {0}, {NoUB})

SpecNorm == InitNorm /\ [][NextNorm]_vars

\* The absolute byte position a request names, the block address taken
\* modulo 2^16.
AbsPos(a) ==
    (NT3H_I2C_MEM_BLOCK_SIZE * a.addr + a.offset)
        % (NT3H_I2C_MEM_BLOCK_SIZE * U16)

\* Both requests name the same position and length.
SamePosition(a, b) == AbsPos(a) = AbsPos(b) /\ a.len = b.len

\* C24: the normalization step of read_bytes, write_bytes and erase_bytes
\* leaves an in-block offset below 16 and the absolute position
\* 16 * address + offset unchanged, the address taken modulo 2^16: the
\* blocks fetched start at block position / 16, the first byte is byte
\* position % 16 of the first block, and two requests that name the same
\* position by different (address, offset) pairs read the same bytes.
C24_Normalization ==
    (op \in ByteOps /\ rslt \in OkStatus) =>
        /\ RunBlocks >= 1
        /\ \A i \in 1..RunBlocks :
               /\ calls[i].k = "read"
               /\ calls[i].a
                      = ((AbsPos(arg) \div NT3H_I2C_MEM_BLOCK_SIZE) + (i - 1))
                            % U16
        /\ op \in ReadOps =>
               out[1] = MemRead(memPrev, DevAddr(calls[1].a))
                            [(AbsPos(arg) % NT3H_I2C_MEM_BLOCK_SIZE) + 1]
        /\ op \in WriteOps \cup EraseOps =>
               \E w \in CallsOf("write") :
                   /\ calls[w].a = calls[1].a
                   /\ calls[w].pkt
                          [(AbsPos(arg) % NT3H_I2C_MEM_BLOCK_SIZE) + 1]
                          = NewBytes[1]
        /\ (op \in ReadOps /\ prev.op \in ReadOps /\ prev.rslt \in OkStatus
            /\ SamePosition(prev.arg, arg)) => out = prev.out

\* C24's case: two reads of the same position, the first by address 1 and
\* offset 3, the second by address 65535 and offset 35, which wraps.
C24_Witness ==
    /\ op \in ReadOps /\ prev.op \in ReadOps
    /\ rslt \in OkStatus /\ prev.rslt \in OkStatus
    /\ prev.arg.addr = 1 /\ prev.arg.offset = 3
    /\ arg.addr = 65535 /\ arg.offset = 35
    /\ SamePosition(prev.arg, arg)
    /\ calls[1].a = 1 /\ out = prev.out

(***************************************************************************)
(* Specification of re-entrant calls: one call of the state-machine draft  *)
(* taken statement by statement, and a second call on the same handle      *)
(* (from an interrupt or a callback) that comes in at any of its           *)
(* statements and runs to its return before the first call goes on.        *)
(***************************************************************************)
\* The read-modify-write operations taken step by step.
RmwOps ==
    {"NFC_WriteMemory", "NFC_EraseMemory", "NFC_WriteConfig", "NFC_WriteCC",
     "NFC_WriteAddr"}

\* The block a stepped call starts at.
StepBase(n) ==
    IF n \in {"NFC_WriteCC", "NFC_WriteAddr"} THEN 0
    ELSE IF n = "NFC_WriteConfig" THEN NT3H_MEM_BLOCK_CONFIG_1K
    ELSE 1

\* The modify step of a read-modify-write operation on the block it read.
StepModify(n, block) ==
    CASE n = "NFC_WriteMemory" -> Splice(block, 5, Pattern(6, 11))
      [] n = "NFC_EraseMemory" ->
             Splice(block, 5, Fill(NFC_MEMORY_ERASE_VALUE, 11))
      [] n = "NFC_WriteConfig" ->
             [block EXCEPT ![3] = ConfigMerge(@, 240, 15)]
      [] n = "NFC_WriteCC" -> Splice(block, 12, DefaultCC)
      [] n = "NFC_WriteAddr" -> [block EXCEPT ![1] = 4]

\* The block the second call writes.
LateBlock == Pattern(100, NFC_I2C_MEM_BLOCK_SIZE)

StartOf(n) ==
    [NoCall EXCEPT
        !.name = n, !.pc = "test",
        !.phase = IF n = "NFC_WriteBlocks" THEN "write"
                  ELSE IF n = "NFC_WriteRegister" THEN "tx" ELSE "read",
        !.base = StepBase(n), !.addr = StepBase(n),
        !.left = IF n \in {"NFC_WriteBlocks", "NFC_ReadBlocks"} THEN 2 ELSE 1,
        !.buf = IF n = "NFC_WriteBlocks"
                THEN Pattern(1, 2 * NFC_I2C_MEM_BLOCK_SIZE) ELSE << >>]

\* The call is entered.
Enter(N) ==
    \E n \in N :
        /\ run.pc = "idle" /\ nops < MaxOps
        /\ run' = StartOf(n)
        /\ memPrev' = mem
        /\ UNCHANGED <<mem, hnfc, op, arg, rslt, out, calls, prev, nops>>

\* if (hnfc->State == NFC_STATE_READY): the primitive returns NFC_BUSY when
\* it is not, and its composed caller makes NFC_ERROR of that.
TestState ==
    /\ run.pc = "test"
    /\ run' = IF hnfc.State = "NFC_STATE_READY" THEN [run EXCEPT !.pc = "store"]
              ELSE [run EXCEPT !.pc = "return",
                               !.rslt = IF run.name \in RmwOps
                                        THEN "NFC_ERROR" ELSE "NFC_BUSY"]
    /\ UNCHANGED <<mem, hnfc, op, arg, rslt, out, calls, memPrev, prev, nops>>

\* hnfc->State = NFC_STATE_BUSY.
StoreBusy ==
    /\ run.pc = "store"
    /\ hnfc' = StoreState(hnfc, "NFC_STATE_BUSY")
    /\ run' = [run EXCEPT !.pc = "xfer"]
    /\ UNCHANGED <<mem, op, arg, rslt, out, calls, memPrev, prev, nops>>

\* One HAL transfer of the loop (F: whether it may fail).
Transfer(F) ==
    \E f \in F :
        LET e == Env(mem, f, "HAL_ERROR", 0)
            rd == HAL_I2C_Mem_Read(e, run.addr)
            wr == HAL_I2C_Mem_Write(e, run.addr,
                      SubSeq(run.buf, 1, NFC_I2C_MEM_BLOCK_SIZE))
            tx == HAL_I2C_Master_Transmit(e,
                      <<NT3H_MEM_BLOCK_SESSION_REGS_1K, 6, 240, 15>>)
            r == IF run.phase = "read" THEN [e |-> rd.e, rslt |-> rd.rslt]
                 ELSE IF run.phase = "write" THEN wr ELSE tx
        IN  /\ run.pc = "xfer"
            /\ mem' = r.e.mem
            /\ run' = [run EXCEPT
                   !.calls = @ \o r.e.calls,
                   !.log = Append(@, "first"),
                   !.buf = IF run.phase = "read" /\ rd.rslt = "HAL_OK"
                           THEN @ \o rd.data ELSE @,
                   !.pc = IF r.rslt # "HAL_OK" THEN "failed"
                          ELSE IF run.phase = "write"
                                  /\ ~NFC_InSram(run.addr) THEN "delay"
                          ELSE "next"]
            /\ UNCHANGED <<hnfc, op, arg, rslt, out, calls, memPrev, prev,
                           nops>>

\* HAL_Delay(4).
Delay ==
    /\ run.pc = "delay"
    /\ run' = [run EXCEPT !.pc = "next",
                          !.calls = Append(@, Call("delay", 4, << >>, TRUE))]
    /\ UNCHANGED <<mem, hnfc, op, arg, rslt, out, calls, memPrev, prev, nops>>

\* block++; address++; noOfBlocks--.
Advance ==
    /\ run.pc = "next"
    /\ run' = [run EXCEPT
           !.addr = (@ + 1) % U16, !.left = @ - 1,
           !.buf = IF run.phase = "write"
                   THEN SubSeq(@, NFC_I2C_MEM_BLOCK_SIZE + 1, Len(@)) ELSE @,
           !.pc = IF run.left = 1 THEN "ready" ELSE "xfer"]
    /\ UNCHANGED <<mem, hnfc, op, arg, rslt, out, calls, memPrev, prev, nops>>

\* After a failed transfer: hnfc->State = NFC_STATE_READY; return NFC_ERROR.
FailRestore ==
    /\ run.pc = "failed"
    /\ hnfc' = StoreState(hnfc, "NFC_STATE_READY")
    /\ run' = [run EXCEPT !.pc = "return", !.rslt = "NFC_ERROR"]
    /\ UNCHANGED <<mem, op, arg, rslt, out, calls, memPrev, prev, nops>>

\* After the loop: hnfc->State = NFC_STATE_READY; return NFC_OK.  The read
\* primitive of a read-modify-write operation returns to its caller.
StoreReady ==
    /\ run.pc = "ready"
    /\ hnfc' = StoreState(hnfc, "NFC_STATE_READY")
    /\ run' = IF run.name \in RmwOps /\ run.phase = "read"
              THEN [run EXCEPT !.pc = "modify"]
              ELSE [run EXCEPT !.pc = "return", !.rslt = "NFC_OK"]
    /\ UNCHANGED <<mem, op, arg, rslt, out, calls, memPrev, prev, nops>>

\* The modify step, and the call of NFC_WriteBlocks with the block.
Modify ==
    /\ run.pc = "modify"
    /\ run' = [run EXCEPT !.pc = "test", !.phase = "write",
                          !.addr = run.base, !.left = 1,
                          !.buf = StepModify(run.name, @)]
    /\ UNCHANGED <<mem, hnfc, op, arg, rslt, out, calls, memPrev, prev, nops>>

\* The call returns to its caller.
Return ==
    /\ run.pc = "return"
    /\ nops' = nops + 1
    /\ prev' = [op |-> op, arg |-> arg, rslt |-> rslt, out |-> out]
    /\ op' = run.name
    /\ arg' = [NoArgs EXCEPT !.addr = run.base, !.state = "NFC_STATE_READY"]
    /\ rslt' = run.rslt
    /\ out' = IF run.name = "NFC_ReadBlocks" THEN run.buf ELSE << >>
    /\ calls' = run.calls
    /\ run' = [run EXCEPT !.pc = "idle"]
    /\ UNCHANGED <<mem, hnfc, memPrev>>

\* The call in progress has issued a transfer and has one more to issue.
TransfersPending ==
    /\ run.log # << >>
    /\ \/ run.name \in RmwOps /\ run.phase = "read"
       \/ run.pc \in {"modify", "test", "store", "xfer"}
       \/ run.pc \in {"delay", "next"} /\ run.left > 1

\* A second call on the handle, entered while the first is at any of its
\* statements, and run to its return: a block write or a block read of the
\* first call's block, or a register write.
Interrupt(L) ==
    \E l \in L :
        LET e == Env(mem, 0, "HAL_ERROR", 0)
            r == CASE l = "NFC_WriteBlocks" ->
                          NFC_WriteBlocks(e, hnfc, run.base, TRUE, LateBlock,
                                          1, NoUB)
                   [] l = "NFC_ReadBlocks" ->
                          NFC_ReadBlocks(e, hnfc, run.base, TRUE, 1, NoUB)
                   [] l = "NFC_WriteRegister" ->
                          NFC_WriteRegister(e, hnfc,
                              NT3H_MEM_BLOCK_SESSION_REGS_1K, 6, 240, 15, NoUB)
        IN  /\ run.pc # "idle" /\ run.late = "none"
            /\ mem' = r.e.mem
            /\ hnfc' = r.h
            /\ run' = [run EXCEPT
                   !.late = r.rslt, !.lateOp = l, !.lateAt = run.pc,
                   !.lateInside = TransfersPending,
                   !.log = @ \o [i \in 1..Len(SelectSeq(r.e.calls,
                                     LAMBDA c : c.k # "delay")) |-> "late"]]
            /\ UNCHANGED <<op, arg, rslt, out, calls, memPrev, prev, nops>>

SteppedOps ==
    {"NFC_WriteBlocks", "NFC_ReadBlocks", "NFC_WriteRegister"} \cup RmwOps

LateOps == {"NFC_WriteBlocks", "NFC_ReadBlocks", "NFC_WriteRegister"}

InitReentry == InitWith(MemWithCC(DefaultCC), ReadyHandle(DefaultCC))

NextReentry ==
    \/ Enter(SteppedOps)
    \/ TestState
    \/ StoreBusy
    \/ Transfer({0, 1})
    \/ Delay
    \/ Advance
    \/ FailRestore
    \/ StoreReady
    \/ Modify
    \/ Return
    \/ Interrupt(LateOps)

SpecReentry == InitReentry /\ [][NextReentry]_vars

\* The steps of a primitive between its test of the State and its store of
\* NFC_STATE_READY.
SinceTest == {"store", "xfer", "delay", "next", "failed", "ready"}

\* A transfer of the second call lies between two transfers of the first.
Interleaved ==
    \E i, j, k \in 1..Len(run.log) :
        /\ i < j /\ j < k
        /\ run.log[i] = "first" /\ run.log[j] = "late" /\ run.log[k] = "first"

\* C26: when a second call on the handle starts at any statement of a
\* first call of a primitive that has passed its test of the State, the
\* second call returns NFC_BUSY and its transfers never lie between
\* transfers of the first.
C26_SingleOwner ==
    (run.name \in NfcPrimitives /\ run.late # "none"
     /\ run.lateAt \in SinceTest) =>
        run.late = "NFC_BUSY" /\ ~Interleaved

\* C26's failing case: NFC_WriteBlocks had found the State Ready and not
\* yet stored Busy when a second NFC_WriteBlocks came in; the second call
\* was accepted and wrote its block, and then the first wrote its two.
C26_Witness ==
    /\ run.name = "NFC_WriteBlocks" /\ run.lateOp = "NFC_WriteBlocks"
    /\ run.lateAt = "store" /\ run.late = "NFC_OK"
    /\ run.pc = "idle" /\ rslt = "NFC_OK"
    /\ run.log = <<"late", "first", "first">>

\* C27: a read-modify-write operation keeps the handle Busy from its first
\* block read until its last block write, and a call that comes in between
\* is not accepted.
C27_RmwHoldsBusy ==
    run.name \in RmwOps =>
        /\ (run.pc # "idle" /\ TransfersPending) =>
               hnfc.State = "NFC_STATE_BUSY"
        /\ (run.late # "none" /\ run.lateInside) => run.late \notin OkStatus

\* C27's failing case: a block write came in between the read and the
\* write of NFC_WriteMemory and was accepted; NFC_WriteMemory then wrote
\* its block back, and of the accepted block write nothing is left.
C27_Witness ==
    /\ run.name = "NFC_WriteMemory" /\ run.lateOp = "NFC_WriteBlocks"
    /\ run.lateAt = "modify" /\ run.lateInside /\ run.late = "NFC_OK"
    /\ run.pc = "idle" /\ rslt = "NFC_OK"
    /\ run.log = <<"first", "late", "first">>
    /\ MemRead(mem, run.base)
           = StepModify("NFC_WriteMemory", MemRead(memPrev, run.base))
    /\ \A i \in 1..5 : MemRead(mem, run.base)[i] # LateBlock[i]

\* Operations that deliver what they read through a pointer of the caller,
\* and the number of bytes the caller provided for it.
OutputReadOps ==
    {"nt3h_read_bytes", "nt3h_read_register", "nt3h_read_config",
     "nt3h_read_capability_cont", "nt3h_is_field_present",
     "NFC_ReadMemory", "NFC_ReadRegister", "NFC_ReadConfig",
     "NFC_ReadFieldPresent"}

OutputSize(name, a) ==
    IF name \in ReadOps THEN a.len
    ELSE IF name = "nt3h_read_capability_cont" THEN 4
    ELSE 1

\* C31: a read operation that returns a failure leaves the caller's output
\* as it was before the call: the buffer of read_bytes, the variable of
\* read_register, read_config and field-present, the container of
\* read_capability_cont, and the container kept in the handle for
\* NFC_ReadCC.
C31_FailedReadLeavesOutput ==
    [][/\ (op' \in OutputReadOps /\ rslt' \notin OkStatus)
              => out' = CallerBuf(OutputSize(op', arg'))
       /\ (op' = "NFC_ReadCC" /\ rslt' \notin OkStatus)
              => hnfc'.CC = hnfc.CC]_vars

\* C31's case: the second block read of a two-block read_bytes failed after
\* the first block had arrived, and the caller's 16 bytes are as before.
C31_Witness ==
    /\ op = "nt3h_read_bytes" /\ rslt \notin OkStatus
    /\ arg.len = 16 /\ arg.offset = 8
    /\ Len(calls) = 2 /\ calls[1].ok /\ ~calls[2].ok
    /\ out = CallerBuf(16)

\* Every block but block 0 is as it was before the last operation.
OtherBlocksKept ==
    \A a \in DOMAIN mem \cup DOMAIN memPrev :
        a # 0 => MemRead(mem, a) = MemRead(memPrev, a)

\* C32: a successful write_descriptor leaves block 0 as it was except for
\* bytes 12..15, which hold the four descriptor bytes given; a successful
\* change-address leaves block 0 as it was except for byte 0, which holds
\* the new address; neither changes another block; and a successful
\* read_descriptor returns bytes 12..15 of block 0 in their order.
C32_Block0FieldIsolation ==
    /\ (op \in {"nt3h_write_capability_cont", "NFC_WriteCC"}
        /\ rslt \in OkStatus)
           => /\ Block0After = Splice(Block0Before, 12, arg.data)
              /\ OtherBlocksKept
    /\ (op \in {"nt3h_change_i2c_address", "NFC_WriteAddr"}
        /\ rslt \in OkStatus)
           => /\ Block0After = [Block0Before EXCEPT ![1] = arg.val]
              /\ OtherBlocksKept
    /\ (op = "nt3h_read_capability_cont" /\ rslt \in OkStatus)
           => /\ out = <<Block0After[13], Block0After[14],
                         Block0After[15], Block0After[16]>>
              /\ mem = memPrev
    /\ (op = "NFC_ReadCC" /\ rslt \in OkStatus)
           => /\ hnfc.CC = <<Block0After[13], Block0After[14],
                             Block0After[15], Block0After[16]>>
              /\ mem = memPrev

\* C32's case: the address byte was changed to 4 on a device with a blank
\* descriptor and the descriptor was written afterwards: bytes 12..15 hold
\* the descriptor, byte 0 still holds 4 and bytes 1..11 are the device's own.
C32_Witness ==
    /\ prev.op = "nt3h_change_i2c_address" /\ prev.rslt \in OkStatus
    /\ prev.arg.val = 4
    /\ op = "nt3h_write_capability_cont" /\ rslt \in OkStatus
    /\ DescriptorBefore = BlankCC /\ DescriptorAfter = DefaultCC
    /\ Block0After[1] = 4
    /\ SubSeq(Block0After, 2, 12) = SubSeq(DefaultBlock(0), 2, 12)

\* C34: whenever NFC_Init returns a status other than NFC_OK, the handle's
\* State afterwards is not NFC_STATE_READY.
C34_FailedInitNotReady ==
    (op = "NFC_Init" /\ arg.dev.valid /\ rslt \notin OkStatus)
        => hnfc.State # "NFC_STATE_READY"

\* C34's failing case: NFC_Init on a blank descriptor failed in the
\* descriptor write and returned NFC_ERROR with the handle left Ready; the
\* memory read that followed was accepted and returned NFC_OK.
C34_Witness ==
    /\ prev.op = "NFC_Init" /\ prev.rslt = "NFC_ERROR"
    /\ prev.arg.state = "NFC_STATE_RESET"
    /\ op = "NFC_ReadMemory" /\ arg.state = "NFC_STATE_READY"
    /\ rslt = "NFC_OK" /\ Len(calls) >= 1
    /\ DescriptorAfter = BlankCC

\* The bytes of scratch buffer the last byte operation fetched, and the
\* bytes its copy-out, merge-in or zero-fill covers from the start of the
\* buffer.
ScratchBytes == Cardinality(CallsOf("read")) * NT3H_I2C_MEM_BLOCK_SIZE
ScratchNeeded == (arg.offset % NT3H_I2C_MEM_BLOCK_SIZE) + arg.len

\* C37: whenever a byte operation has issued its block read, the blocks it
\* fetched hold at least offset + length bytes, for the normalized offset
\* and every length, so that the copy, merge or fill stays inside the
\* scratch buffer.
C37_ScratchCovers ==
    (op \in ByteOps /\ arg.failAt = 0 /\ CallsOf("read") # {})
        => ScratchBytes >= ScratchNeeded

\* C37's failing case: an erase of 4097 bytes fetched two blocks, 32 bytes
\* of scratch buffer for a zero-fill of 4097, and the build carried on.
C37_Witness ==
    /\ op = "nt3h_erase_bytes" /\ arg.len = 4097 /\ arg.offset = 0
    /\ Cardinality(CallsOf("read")) = 2
    /\ ScratchBytes = 32 /\ ScratchNeeded = 4097
    /\ rslt # "FAULT"

\* The block count a byte operation computes for its span; the stateless
\* draft keeps it in a uint8_t.
BlockCount ==
    LET n == calculate_blocks_needed(arg.offset % NT3H_I2C_MEM_BLOCK_SIZE,
                                     arg.len)
    IN  IF op \in StatelessOps THEN n % U8 ELSE n

\* No block is read twice and no block is written twice in one operation.
NoCallRepeated ==
    \A i, j \in 1..Len(calls) :
        (i < j /\ calls[i].k = calls[j].k /\ calls[i].k \in {"read", "write"})
            => calls[i].a # calls[j].a

\* No call that failed is issued again later in the same operation.
NoRetry ==
    \A i \in FailedCalls : \A j \in (i + 1)..Len(calls) :
        ~(calls[j].k = calls[i].k /\ calls[j].a = calls[i].a
          /\ calls[j].pkt = calls[i].pkt)

\* C38: every operation returns a status after a bounded number of
\* transport calls: read_bytes issues at most n block reads and no write,
\* write_bytes and erase_bytes at most n block reads and n block writes
\* (n the block count computed for the span), exactly n when it
\* succeeds, no block is transferred twice in the same direction, no failed
\* call is issued again, and an operation that is not a byte operation
\* issues at most five calls.
C38_BoundedTransportCalls ==
    (op # "none") =>
        /\ rslt # "none"
        /\ NoRetry
        /\ (op \in ByteOps) =>
               /\ NoCallRepeated
               /\ Cardinality(CallsOf("read")) <= BlockCount
               /\ Cardinality(CallsOf("write"))
                      <= (IF op \in ReadOps THEN 0 ELSE BlockCount)
               /\ Cardinality(CallsOf("delay"))
                      <= Cardinality(CallsOf("write"))
               /\ (rslt \in OkStatus) =>
                      /\ Cardinality(CallsOf("read")) = BlockCount
                      /\ (op \notin ReadOps) =>
                             Cardinality(CallsOf("write")) = BlockCount
        /\ (op \notin ByteOps /\ op # "goto_nt3h_write_bytes") =>
               Len(calls) <= 5

\* C38's case: an erase of 40 bytes over four blocks whose fourth block
\* read failed returned a failure after exactly four reads, each of another
\* block, and no write.
C38_Witness ==
    /\ op = "nt3h_erase_bytes" /\ arg.len = 40 /\ BlockCount = 4
    /\ rslt \notin OkStatus
    /\ Len(calls) = 4 /\ Cardinality(CallsOf("read")) = 4
    /\ FailedCalls = {4}

(***************************************************************************)
(* Specification of the register index: the configuration accessors of     *)
(* both drafts with register numbers inside and past the 16-byte block, on *)
(* builds that fault on the stray access or carry on with the byte found   *)
(* there.                                                                  *)
(***************************************************************************)
IndexRegs == {0, NT3H_I2C_MEM_BLOCK_SIZE - 1, NT3H_I2C_MEM_BLOCK_SIZE, U8 - 1}

IndexBuilds == {NoUB, Faulting, UB(FALSE, <<170>>, "NFC_STATE_RESET")}

InitIndex == InitWith(MemWithCC(DefaultCC), ReadyHandle(DefaultCC))

NextIndex ==
    \/ ReadConfig(IndexRegs, {ValidDev}, {TRUE}, {0, 1}, IndexBuilds)
    \/ WriteConfig(IndexRegs, {<<240, 15>>}, {ValidDev}, {0, 1}, IndexBuilds)
    \/ NfcReadConfig(IndexRegs, {ValidDev}, {TRUE}, {0, 1}, IndexBuilds)
    \/ NfcWriteConfig(IndexRegs, {<<240, 15>>}, {ValidDev}, {0, 1},
                      IndexBuilds)

SpecIndex == InitIndex /\ [][NextIndex]_vars

ConfigOps ==
    {"nt3h_read_config", "nt3h_write_config", "NFC_ReadConfig",
     "NFC_WriteConfig"}

\* The call fetched the configuration block and went on to index it.
BlockIndexed == Len(calls) >= 1 /\ calls[1].k = "read" /\ calls[1].ok

\* C33: whenever read_config or write_config indexes the configuration
\* block it fetched, the index it uses is one of 0..15.
C33_ConfigIndexInBlock ==
    (op \in ConfigOps /\ BlockIndexed)
        => arg.reg \in 0..(NT3H_I2C_MEM_BLOCK_SIZE - 1)

\* C33's failing case: write_config with register number 16 fetched the
\* block, indexed one byte past its end, and returned success with the
\* configuration block written back exactly as it was read.
C33_Witness ==
    /\ op = "nt3h_write_config" /\ rslt = "NT3H_OK"
    /\ arg.reg = NT3H_I2C_MEM_BLOCK_SIZE
    /\ BlockIndexed /\ Cardinality(CallsOf("write")) = 1
    /\ \A i \in CallsOf("write") : calls[i].pkt = ConfigBefore
    /\ mem = memPrev

(***************************************************************************)
(* Specification of the ready gate: NFC_Init (the probe or the descriptor  *)
(* read may fail), NFC_DeInit and the block, memory and register           *)
(* operations of the state-machine draft, from a handle that is fresh or   *)
(* ready.                                                                  *)
(***************************************************************************)
GateSpans == { <<1, 5, 11>>, <<1, 8, 16>> }

InitGate ==
    \E cc \in {BlankCC, DefaultCC} :
        \E h \in {FreshHandle, ReadyHandle(cc)} : InitWith(MemWithCC(cc), h)

NextGate ==
    \/ NfcInit({ValidDev}, {0, 1, 2})
    \/ NfcDeInit({ValidDev})
    \/ NfcReadBlocks({1, 56}, {1, 2}, {ValidDev}, {TRUE}, {0}, {NoUB})
    \/ NfcWriteBlocks({1, 56}, {1, 2}, {ValidDev}, {TRUE}, {0}, {NoUB})
    \/ ReadMemory(GateSpans, {ValidDev}, {TRUE}, {0}, {NoUB})
    \/ WriteMemory(GateSpans, {ValidDev}, {TRUE}, {0}, {NoUB})
    \/ EraseMemory(GateSpans, {ValidDev}, {0}, {NoUB})
    \/ NfcReadRegister({6}, {1}, {ValidDev}, {TRUE}, {0}, {NoUB})
    \/ NfcWriteRegister({6}, {<<240, 15>>}, {ValidDev}, {0}, {NoUB})
    \/ NfcReadConfig({2}, {ValidDev}, {TRUE}, {0}, {NoUB})
    \/ NfcWriteConfig({2}, {<<240, 15>>}, {ValidDev}, {0}, {NoUB})
    \/ NfcReadFieldPresent({1}, {ValidDev}, {TRUE}, {0}, {NoUB})

SpecGate == InitGate /\ [][NextGate]_vars

\* The handle the last operation started on had never been initialized, had
\* just been de-initialized, or had just failed its init at the probe or at
\* the descriptor read.
StartedUninitialized ==
    \/ prev.op = "none" /\ arg.state = "NFC_STATE_RESET"
    \/ prev.op = "NFC_DeInit" /\ prev.rslt \in OkStatus
    \/ /\ prev.op = "NFC_Init" /\ prev.rslt \notin OkStatus
       /\ prev.arg.failAt \in {1, 2}

\* C35: a block, memory or register operation of the state-machine draft
\* issues a transport call only if the handle was Ready when it started;
\* started on a handle that was never initialized, was de-initialized, or
\* whose init failed at the probe or at the descriptor read, it returns a
\* failure without a transport call and without changing device memory.
C35_TransportOnlyWhenReady ==
    (op \in NfcPrimitives \cup NfcComposed) =>
        /\ (calls # << >>) => arg.state = "NFC_STATE_READY"
        /\ StartedUninitialized =>
               /\ calls = << >> /\ rslt \notin OkStatus
               /\ mem = memPrev

\* C35's case: a Ready handle was de-initialized and the two-block memory
\* write that followed was refused without a transport call.
C35_Witness ==
    /\ prev.op = "NFC_DeInit" /\ prev.rslt \in OkStatus
    /\ prev.arg.state = "NFC_STATE_READY"
    /\ op = "NFC_WriteMemory" /\ arg.len = 16 /\ arg.offset = 8
    /\ arg.state = "NFC_STATE_RESET"
    /\ calls = << >> /\ rslt \notin OkStatus /\ mem = memPrev

(***************************************************************************)
(* Specification of the delay reference: the block-writing operations of   *)
(* the stateless draft on a handle whose delay_ms member is set or null.   *)
(***************************************************************************)
NoDelayDev == Dev(TRUE, TRUE, TRUE, FALSE)

DelaySpans == { <<1, 5, 11>>, <<1, 8, 16>>, <<248, 0, 4>> }

InitDelay ==
    \E cc \in {BlankCC, DefaultCC} : InitWith(MemWithCC(cc), FreshHandle)

NextDelay ==
    \/ WriteBytes(DelaySpans, {ValidDev, NoDelayDev}, {TRUE}, {0}, {NoUB})
    \/ EraseBytes(DelaySpans, {ValidDev, NoDelayDev}, {0}, {NoUB})
    \/ WriteConfig({2}, {<<240, 15>>}, {ValidDev, NoDelayDev}, {0}, {NoUB})
    \/ WriteCapabilityCont({BlankCC, DefaultCC}, {ValidDev, NoDelayDev},
                           {TRUE}, {0}, {NoUB})
    \/ ChangeI2cAddress(I2cAddrs, {ValidDev, NoDelayDev}, {0})
    \/ Nt3hInit({ValidDev, NoDelayDev}, {0})

SpecDelay == InitDelay /\ [][NextDelay]_vars

\* The operations of the stateless draft that can write a block.
BlockWritingOps ==
    {"nt3h_write_bytes", "nt3h_erase_bytes", "nt3h_write_config",
     "nt3h_write_capability_cont", "nt3h_change_i2c_address", "nt3h_init"}

CalledWithNullDelay ==
    arg.dev.valid /\ arg.dev.read /\ arg.dev.write /\ ~arg.dev.delay_ms

\* C36: an operation that can write a block, called with a handle whose
\* delay reference is null, returns NullReference without a transport call
\* (init: whenever the descriptor is blank, so that it would write).
C36_NullDelayRejected ==
    (/\ op \in BlockWritingOps /\ CalledWithNullDelay
     /\ (op = "nt3h_init" => DescriptorBefore = BlankCC))
        => rslt = "NT3H_E_NULL_PTR" /\ calls = << >>

\* C36's failing case: write_bytes on a handle with a null delay reference
\* was accepted, wrote two blocks, each followed by the settle delay, and
\* returned success.
C36_Witness ==
    /\ op = "nt3h_write_bytes" /\ CalledWithNullDelay
    /\ rslt = "NT3H_OK"
    /\ Cardinality(CallsOf("write")) = 2
    /\ Cardinality(CallsOf("delay")) = 2
    /\ mem # memPrev

(***************************************************************************)
(* The whole driver: every operation of both drafts, from a device whose   *)
(* descriptor is blank or programmed and a handle that is fresh or ready.  *)
(***************************************************************************)
Init ==
    \E cc \in Containers :
        \E h \in {FreshHandle, ReadyHandle(cc)} : InitWith(MemWithCC(cc), h)

Next ==
    \/ NextBytes
    \/ NextBlocks
    \/ NextConfig
    \/ NextInit
    \/ NextNull

Spec == Init /\ [][Next]_vars

=============================================================================
